---- MODULE Spec2Model ----
(***************************************************************************)
(* Verification model of the lumped-parameter (0D) circulation model and   *)
(* its coupling layer:                                                     *)
(*   src/modules/flow0d/cardiovascular0D.py   (cardiovascular0Dbase)       *)
(*   src/modules/flow0d/flow0d.py             (Flow0DProblem)              *)
(*   src/modules/coupling/fluid_ale_flow0d.py (FluidmechanicsAleFlow0D..)  *)
(*                                                                         *)
(* Conventions.                                                            *)
(*  - Vectors are functions over 0..numdof-1, the indices of the source.   *)
(*  - Python's None is the string "None".                                  *)
(*  - Time is counted in units of the step size dt, so 1/dt = 1 and the    *)
(*    time of step N is N.  Reals are integers in this unit.               *)
(*  - The equation maps of the concrete models (cardiovascular0D_syspul    *)
(*    and the like), the time-integration helper (ti.cycle, time curves)   *)
(*    and the outer time loop are not part of src/; they are modelled      *)
(*    from the specification and marked so in MODEL_MAP.json.              *)
(***************************************************************************)
EXTENDS Integers, Sequences, FiniteSets, TLC

(***************************************************************************)
(* Bounds of the model.                                                    *)
(***************************************************************************)
MaxVal == 1          \* entries of a state vector range over 0..MaxVal
MaxStep == 4         \* numstep_stop: number of time steps of a run
MaxAfter == 1        \* largest configured perturb_after_cylce
StepsPerCycle == 2   \* T_cycl in steps, when a cycle time is configured

numdof == 2          \* self.numdof of the 0D model

None == "None"
\* an absent container (None passed for a vector, a matrix or a file)
NoneC == << >>
IsNone(c) == DOMAIN c = {}
Idx == 0..(numdof - 1)
Vals == 0..MaxVal
Vecs == [Idx -> Vals]
ZeroVec == [i \in Idx |-> 0]
ZeroMat == [i \in Idx |-> [j \in Idx |-> 0]]

Abs(a) == IF a < 0 THEN -a ELSE a
Max2(a, b) == IF a < b THEN b ELSE a
RECURSIVE MaxOver(_, _)
MaxOver(S, g) == IF S = {} THEN 0
                 ELSE LET i == CHOOSE k \in S : TRUE
                      IN Max2(g[i], MaxOver(S \ {i}, g))

\* np.isclose(a, b): |a - b| <= atol + rtol*|b| with atol = 1e-8, rtol = 1e-5,
\* both sides multiplied by 1e8.
IsClose(a, b) == Abs(a - b) * 100000000 <= 1 + 1000 * Abs(b)

VARIABLES
  cfg,               \* configuration attributes of Flow0DProblem / cardvasc0D
  s, s_old, s_mid,   \* state vector: new, committed, output
  sTc, sTc_old,      \* cycle snapshots
  df, df_old,        \* time-derivative term: new, committed
  f, f_old,          \* flux term: new, committed
  aux, aux_old, aux_mid, auxTc_old,
  dK, K,             \* self.dK, self.K written by evaluate
  r, Ktot,           \* the pair returned by assemble_residual_stiffness
  cycle, cycleerror, \* ti.cycle[0], ti.cycleerror[0]
  have_induced_pert,
  Rv,                \* the four valve resistances of cardvasc0D
  sym,               \* the model's symbolic expressions and the stages that built them
  lam,               \* the evaluators compiled from them
  init,              \* cardvasc0D.init: next write_output creates the files
  results,           \* a result file: the time stamps of its lines, and its last line
  initial_data,      \* files written by write_initial
  N, t, pc, ret,     \* time loop: step, time in the cycle, position, cycle_check's value
  npert,             \* number of calls of cardvasc0D.induce_perturbation
  isin, isout,       \* get_index_sets: the processes' vectors and options, the sets returned
  pv,                \* arguments of the latest set_prescribed_variables call
  ev,                \* a stand-alone evaluate call: arguments and containers
  rst,               \* restart: the problem written, the checkpoint files, the problem read
  ci,                \* construction of the compartment interfaces of a model
  vl,                \* a valve law: its arguments, the resistance and the flow it gives
  rk,                \* a vector distributed over ranks: the ranks' update and snapshot copies
  jk                 \* a compiled model put to the test: an evaluate call and what it returned

flowvars == << cfg, s, s_old, s_mid, sTc, sTc_old, df, df_old, f, f_old,
               aux, aux_old, aux_mid, auxTc_old, dK, K, r, Ktot, cycle, cycleerror,
               have_induced_pert, Rv, sym, lam, init, results, initial_data,
               N, t, pc, ret, npert >>
isvars == << isin, isout >>
purevars == << isvars, pv, ev, rst, ci, vl, rk, jk >>

vars == << flowvars, purevars >>

committed == << s_old, df_old, f_old, aux_old >>

(***************************************************************************)
(* Symbolic expressions.  An expression is a sum of monomials, written as  *)
(* the sequence of its terms; a monomial has an integer coefficient and    *)
(* the exponents of the unknowns x_[k], of the first coupling symbol       *)
(* c_[0], of the time symbol t_ and of the first function symbol fnc_[0].  *)
(* The number 0 is the empty sum.                                          *)
(***************************************************************************)
\* the value of an expression at (x, c, t, fnc): the sum of its terms; a
\* symbol that does not occur in a term is not looked up
ExprValue(e, x, c, tt, fnc) ==
  LET RECURSIVE Pow(_, _), PowX(_, _), Terms(_)
      Pow(b, n) == IF n = 0 THEN 1 ELSE b * Pow(b, n - 1)
      PowX(k, xe) == IF k < 0 THEN 1 ELSE Pow(x[k], xe[k]) * PowX(k - 1, xe)
      Value(m) == m.coef * PowX(numdof - 1, m.x)
                         * (IF m.c = 0 THEN 1 ELSE Pow(c[1], m.c))
                         * Pow(tt, m.t)
                         * (IF m.fnc = 0 THEN 1 ELSE Pow(fnc[1], m.fnc))
      Terms(n) == IF n = 0 THEN 0 ELSE Value(e[n]) + Terms(n - 1)
  IN  Terms(Len(e))

\* sp.diff(e, x_[j]): term by term; a term without x_[j] drops out
diff(e, j) ==
  LET dep == SelectSeq(e, LAMBDA m : m.x[j] > 0)
  IN  [ k \in 1 .. Len(dep) |->
          [ coef |-> dep[k].coef * dep[k].x[j],
            x |-> [dep[k].x EXCEPT ![j] = @ - 1],
            c |-> dep[k].c, t |-> dep[k].t, fnc |-> dep[k].fnc ] ]

\* [self.x_, self.c_, self.t_, self.fnc_]: the argument list of every evaluator
LambdaArgs == << "x_", "c_", "t_", "fnc_" >>

\* sp.lambdify(args, e, 'numpy'): a function of the listed arguments that
\* computes e; it keeps the expression as it is at the time of the call
lambdify(args, e) == [ args |-> args, expr |-> e ]

\* fn(x, c, t, fnc): the actual arguments are bound to the names of the
\* argument list by position, then the expression is computed
Call(fn, x, c, tt, fnc) ==
  IF fn.args = LambdaArgs THEN ExprValue(fn.expr, x, c, tt, fnc)
  ELSE LET actual == << x, c, tt, fnc >>
           at(n) == CHOOSE k \in 1 .. 4 : fn.args[k] = n
       IN  ExprValue(fn.expr, actual[at("x_")], actual[at("c_")], actual[at("t_")],
                     actual[at("fnc_")])

(***************************************************************************)
(* cardiovascular0Dbase: the compiled evaluators, as lambdify_expressions  *)
(* left them in self.df__, self.f__, self.a__, self.dK__ and self.K__.     *)
(***************************************************************************)
df__(i, x, c, tt, fnc) == Call(lam.df__[i], x, c, tt, fnc)
f__(i, x, c, tt, fnc) == Call(lam.f__[i], x, c, tt, fnc)
a__(i, x, c, tt, fnc) == Call(lam.a__[i], x, c, tt, fnc)
dK__(i, j, x, c, tt, fnc) == Call(lam.dK__[i][j], x, c, tt, fnc)
K__(i, j, x, c, tt, fnc) == Call(lam.K__[i][j], x, c, tt, fnc)

\* mutant: the block of f is guarded by the test of df
cardvasc0D_evaluate_guard(x, tt, dfc, fc, dKc, Kc, c, y, a, fnc) ==
  [ df |-> IF ~IsNone(dfc) THEN [i \in Idx |-> df__(i, x, c, tt, fnc)] ELSE dfc,
    f  |-> IF ~IsNone(dfc) THEN [i \in Idx |-> f__(i, x, c, tt, fnc)] ELSE fc,
    dK |-> IF ~IsNone(dKc) THEN [i \in Idx |-> [j \in Idx |-> dK__(i, j, x, c, tt, fnc)]]
           ELSE dKc,
    K  |-> IF ~IsNone(Kc) THEN [i \in Idx |-> [j \in Idx |-> K__(i, j, x, c, tt, fnc)]]
           ELSE Kc,
    a  |-> IF ~IsNone(a) THEN [i \in Idx |-> a__(i, x, c, tt, fnc)] ELSE a ]

\* evaluate: a container passed as None is left alone
cardvasc0D_evaluate(x, tt, dfc, fc, dKc, Kc, c, y, a, fnc) ==
  [ df |-> IF ~IsNone(dfc) THEN [i \in Idx |-> df__(i, x, c, tt, fnc)] ELSE dfc,
    f  |-> IF ~IsNone(fc) THEN [i \in Idx |-> f__(i, x, c, tt, fnc)] ELSE fc,
    dK |-> IF ~IsNone(dKc) THEN [i \in Idx |-> [j \in Idx |-> dK__(i, j, x, c, tt, fnc)]]
           ELSE dKc,
    K  |-> IF ~IsNone(Kc) THEN [i \in Idx |-> [j \in Idx |-> K__(i, j, x, c, tt, fnc)]]
           ELSE Kc,
    a  |-> IF ~IsNone(a) THEN [i \in Idx |-> a__(i, x, c, tt, fnc)] ELSE a ]

(***************************************************************************)
(* cardiovascular0Dbase: operations on vectors.  [vs, ve) is the ownership *)
(* range of the calling process (0, len for a numpy array).                *)
(***************************************************************************)
\* mutant: the loop runs over the whole vector
CopyRange_all(dst, src, vs, ve) == [i \in Idx |-> src[i]]

\* for i in range(vs,ve): dst[i] = src[i]
CopyRange(dst, src, vs, ve) ==
  [i \in Idx |-> IF vs <= i /\ i < ve THEN src[i] ELSE dst[i]]

\* mutant: the column of index_prescribed is overwritten, not the row
PrescribedRow_column(Kin, index_prescribed) ==
  [i \in Idx |-> [j \in Idx |-> IF j = index_prescribed
                                THEN (IF i # index_prescribed THEN 0 ELSE 1)
                                ELSE Kin[i][j]]]

\* row index_prescribed of K: zero off the diagonal, one on it
PrescribedRow(Kin, index_prescribed) ==
  [i \in Idx |-> IF i = index_prescribed
                 THEN [j \in Idx |-> IF j # index_prescribed THEN 0 ELSE 1]
                 ELSE Kin[i]]

\* r[index_prescribed] = x[index_prescribed] - val, on the owning process
PrescribedRhs(x, rin, val, index_prescribed, xs, xe) ==
  IF xs <= index_prescribed /\ index_prescribed < xe
  THEN [rin EXCEPT ![index_prescribed] = x[index_prescribed] - val]
  ELSE rin

set_prescribed_variables(x, rin, Kin, val, index_prescribed, xs, xe) ==
  [ r |-> PrescribedRhs(x, rin, val, index_prescribed, xs, xe),
    K |-> PrescribedRow(Kin, index_prescribed) ]

\* mutant: f_old takes the time-derivative term
cardvasc0D_update_typo(var, dfn, fn, var_old, dfo, fo, auxn, auxo, vs, ve) ==
  [ var_old |-> CopyRange(var_old, var, vs, ve),
    df_old  |-> CopyRange(dfo, dfn, vs, ve),
    f_old   |-> CopyRange(fo, dfn, vs, ve),
    aux_old |-> [i \in Idx |-> auxn[i]] ]

cardvasc0D_update(var, dfn, fn, var_old, dfo, fo, auxn, auxo, vs, ve) ==
  [ var_old |-> CopyRange(var_old, var, vs, ve),
    df_old  |-> CopyRange(dfo, dfn, vs, ve),
    f_old   |-> CopyRange(fo, fn, vs, ve),
    aux_old |-> [i \in Idx |-> auxn[i]] ]

midpoint_avg(var, var_old, var_mid, theta, vs, ve) ==
  [i \in Idx |-> IF vs <= i /\ i < ve
                 THEN theta * var[i] + (1 - theta) * var_old[i]
                 ELSE var_mid[i]]

\* set_output_state(var, var_old, var_out, theta, midpoint)
set_output_state_vec(var, var_old, var_out, theta, midpoint, vs, ve) ==
  IF midpoint THEN midpoint_avg(var, var_old, var_out, theta, vs, ve)
  ELSE CopyRange(var_out, var, vs, ve)

(***************************************************************************)
(* cardiovascular0Dbase: periodicity check.                                *)
(***************************************************************************)
CheckTypes == {"allvar", "pQvar"}

\* indices compared by a check type: all variables, or the named subset
CheckedIdx(check) == IF check = "allvar" THEN Idx ELSE {0}

\* the error norm between the two snapshots
CycleError(varTc, varTc_old, check) ==
  MaxOver(CheckedIdx(check), [i \in Idx |-> Abs(varTc[i] - varTc_old[i])])

\* check_periodic(varTc, varTc_old, eps, check, cyclerr): sets cyclerr[0] and
\* reports whether the error is below the threshold
check_periodic(varTc, varTc_old, eps, check) ==
  LET err == CycleError(varTc, varTc_old, check)
  IN [ is_periodic |-> err < eps, cyclerr |-> err ]

\* mutant: the start-of-cycle file is written from the new snapshot
write_initial_new(varTc_old, varTc) == [ Tstart |-> varTc, Tend |-> varTc ]

\* write_initial(path, nm, varTc_old, varTc): the two records written
write_initial(varTc_old, varTc) == [ Tstart |-> varTc_old, Tend |-> varTc ]

\* mutant: every step of a model with a cycle time counts as a cycle end
AtCycleEnd_anytime(tt) == cfg.T_cycl > 0

\* if self.T_cycl > 0. and np.isclose(t, self.T_cycl)
AtCycleEnd(tt) == cfg.T_cycl > 0 /\ IsClose(tt, cfg.T_cycl)

\* mutant: the induction cycle itself already counts as passed
NotPastInduction_strict(cyc, induce_pert_after_cycl) == cyc < induce_pert_after_cycl

\* if cycle[0] <= induce_pert_after_cycl: is_periodic = False
NotPastInduction(cyc, induce_pert_after_cycl) == cyc <= induce_pert_after_cycl

\* the value of is_periodic when cycle_check returns at a cycle end
PeriodicAtEnd(varTc, varTc_old, cyc, eps_periodic, check, induce_pert_after_cycl) ==
  LET p1 == IF check # None
            THEN check_periodic(varTc, varTc_old, eps_periodic, check).is_periodic
            ELSE FALSE
  IN IF NotPastInduction(cyc, induce_pert_after_cycl) THEN FALSE ELSE p1

\* mutant: a periodic cycle end keeps the old snapshot and the cycle counter
cardvasc0D_cycle_check_hold(var, varTc, varTc_old, tt, cyc, cyclerr, eps, check, path, after, inidata, vs, ve) ==
  IF AtCycleEnd(tt)
  THEN LET vTc == CopyRange(varTc, var, vs, ve)
           per == PeriodicAtEnd(vTc, varTc_old, cyc, eps, check, after)
       IN [ varTc |-> vTc,
            varTc_old |-> IF per THEN varTc_old ELSE CopyRange(varTc_old, vTc, vs, ve),
            cycle |-> IF per THEN cyc ELSE cyc + 1,
            cyclerr |-> IF check # None
                        THEN check_periodic(vTc, varTc_old, eps, check).cyclerr
                        ELSE cyclerr,
            initial_data |-> IF per /\ path # None
                             THEN write_initial(varTc_old, vTc) ELSE inidata,
            is_periodic |-> per ]
  ELSE [ varTc |-> varTc, varTc_old |-> varTc_old, cycle |-> cyc,
         cyclerr |-> cyclerr, initial_data |-> inidata, is_periodic |-> FALSE ]

\* eps: eps_periodic, path: inioutpath, after: induce_pert_after_cycl
cardvasc0D_cycle_check(var, varTc, varTc_old, tt, cyc, cyclerr, eps, check, path, after, inidata, vs, ve) ==
  IF AtCycleEnd(tt)
  THEN LET vTc == CopyRange(varTc, var, vs, ve)
           per == PeriodicAtEnd(vTc, varTc_old, cyc, eps, check,
                                after)
       IN [ varTc |-> vTc,
            varTc_old |-> CopyRange(varTc_old, vTc, vs, ve),
            cycle |-> cyc + 1,
            cyclerr |-> IF check # None
                        THEN check_periodic(vTc, varTc_old, eps, check).cyclerr
                        ELSE cyclerr,
            initial_data |-> IF per /\ path # None
                             THEN write_initial(varTc_old, vTc) ELSE inidata,
            is_periodic |-> per ]
  ELSE [ varTc |-> varTc, varTc_old |-> varTc_old, cycle |-> cyc,
         cyclerr |-> cyclerr, initial_data |-> inidata, is_periodic |-> FALSE ]

(***************************************************************************)
(* cardiovascular0Dbase: perturbation and output.                          *)
(***************************************************************************)
PerturbTypes == {"mr", "ms", "ar", "as"}

\* mutant: aortic regurgitation scales the minimum resistance
Scaled_swapped(perturb_type) ==
  IF perturb_type = "mr" THEN {"R_vin_l_max"}
  ELSE IF perturb_type = "ms" THEN {"R_vin_l_min"}
  ELSE IF perturb_type = "ar" THEN {"R_vout_l_min"}
  ELSE IF perturb_type = "as" THEN {"R_vout_l_min"}
  ELSE {}

\* the resistance a perturbation type scales
Scaled(perturb_type) ==
  IF perturb_type = "mr" THEN {"R_vin_l_max"}
  ELSE IF perturb_type = "ms" THEN {"R_vin_l_min"}
  ELSE IF perturb_type = "ar" THEN {"R_vout_l_max"}
  ELSE IF perturb_type = "as" THEN {"R_vout_l_min"}
  ELSE {}

cardvasc0D_induce_perturbation(R, perturb_type, perturb_factor) ==
  [n \in DOMAIN R |-> IF n \in Scaled(perturb_type) THEN R[n] * perturb_factor
                      ELSE R[n]]

\* The symbolic pipeline.  The record it works on holds the arrays of the
\* model object: the coupling and function symbols, the expressions df_,
\* f_, a_, dK_, K_ and the evaluators compiled from them.  coupled tells
\* whether the model has a chamber coupled to a 3D subdomain; trace lists
\* the stages run since the arrays were set up.

\* setup_arrays -> set_solve_arrays: the symbol lists are emptied, the
\* expressions and the evaluators are zeroed ([0]*numdof).  In an expression
\* array the 0 is the empty sum; in an evaluator array it is not a function
\* and has no argument list.
set_solve_arrays(coupled) ==
  LET ZeroExpr == << >>
      NotCompiled == [ args |-> << >>, expr |-> << >> ]
      ExprVec(e) == [i \in Idx |-> e]
      ExprMat(e) == [i \in Idx |-> [j \in Idx |-> e]]
  IN  [ coupled |-> coupled, c_ |-> << >>, fnc_ |-> << >>,
        df_ |-> ExprVec(ZeroExpr), f_ |-> ExprVec(ZeroExpr), a_ |-> ExprVec(ZeroExpr),
        dK_ |-> ExprMat(ZeroExpr), K_ |-> ExprMat(ZeroExpr),
        df__ |-> ExprVec(NotCompiled), f__ |-> ExprVec(NotCompiled),
        a__ |-> ExprVec(NotCompiled),
        dK__ |-> ExprMat(NotCompiled), K__ |-> ExprMat(NotCompiled),
        trace |-> << "setup_arrays" >> ]

\* the re-run of set_compartment_interfaces leaves the expressions alone
rerun_compartment_interfaces(y) ==
  [ y EXCEPT !.trace = Append(@, "set_compartment_interfaces") ]

\* not in src/ (equation_map of the derived model classes).  The stand-in has
\* two unknowns and the four valve resistances as coefficients:
\*   Kcoef(R) = [[R_vin_l_max, -R_vin_l_min], [-R_vout_l_min, R_vout_l_max]].
\* Without a coupled chamber the circuit is linear:
\*   df_[i] = x_[i],  f_[i] = sum_j Kcoef(R)[i][j]*x_[j],  a_[i] = Kcoef(R)[i][i]*x_[i].
\* With a coupled chamber there is a coupling symbol c_[0] and a function
\* symbol fnc_[0], and the equations are not linear:
\*   df_[0] = x_[0]*x_[1] + c_[0],            df_[1] = fnc_[0]*x_[1],
\*   f_[0] = Kcoef[0][0]*x_[0] + Kcoef[0][1]*x_[1] + c_[0]*x_[0],
\*   f_[1] = Kcoef[1][0]*x_[0] + Kcoef[1][1]*x_[1]^2 + t_*x_[0].
Kcoef(p) == [i \in Idx |-> [j \in Idx |->
               IF i = 0 /\ j = 0 THEN p.R_vin_l_max
               ELSE IF i = 0 THEN -p.R_vin_l_min
               ELSE IF j = 0 THEN -p.R_vout_l_min
               ELSE p.R_vout_l_max]]

Equations(coupled, R) ==
  LET Monomial(coef, xe, ce, te, fe) ==
        [ coef |-> coef, x |-> xe, c |-> ce, t |-> te, fnc |-> fe ]
      NoX == [k \in Idx |-> 0]
      Only(j) == [k \in Idx |-> IF k = j THEN 1 ELSE 0]
      kc == Kcoef(R)
      lin(i) == [ j \in 1 .. numdof |-> Monomial(kc[i][j - 1], Only(j - 1), 0, 0, 0) ]
  IN  IF ~coupled
      THEN [ c_ |-> << >>, fnc_ |-> << >>,
             df_ |-> [i \in Idx |-> << Monomial(1, Only(i), 0, 0, 0) >>],
             f_ |-> [i \in Idx |-> lin(i)],
             a_ |-> [i \in Idx |-> << Monomial(kc[i][i], Only(i), 0, 0, 0) >>] ]
      ELSE [ c_ |-> << "c_0" >>, fnc_ |-> << "fnc_0" >>,
             df_ |-> [i \in Idx |->
                        IF i = 0
                        THEN << Monomial(1, [k \in Idx |-> 1], 0, 0, 0),
                                Monomial(1, NoX, 1, 0, 0) >>
                        ELSE << Monomial(1, Only(i), 0, 0, 1) >>],
             f_ |-> [i \in Idx |->
                       IF i = 0
                       THEN lin(0) \o << Monomial(1, Only(0), 1, 0, 0) >>
                       ELSE << Monomial(kc[i][0], Only(0), 0, 0, 0),
                               Monomial(kc[i][i], [k \in Idx |-> IF k = i THEN 2 ELSE 0],
                                        0, 0, 0),
                               Monomial(1, Only(0), 0, 1, 0) >>],
             a_ |-> [i \in Idx |-> << Monomial(kc[i][i], Only(i), 0, 0, 0) >>] ]

\* equation_map: the symbols are created and df_, f_, a_ are written with the
\* parameter values of the moment
equation_map(y, R) ==
  LET eq == Equations(y.coupled, R)
  IN  [ y EXCEPT !.c_ = eq.c_, !.fnc_ = eq.fnc_, !.df_ = eq.df_, !.f_ = eq.f_,
                 !.a_ = eq.a_, !.trace = Append(@, "equation_map") ]

\* mutant: the derivative of row j with respect to unknown i is stored at [i][j]
set_stiffness_transposed(y) ==
  [ y EXCEPT !.dK_ = [i \in Idx |-> [j \in Idx |-> diff(y.df_[j], i)]],
             !.K_ = [i \in Idx |-> [j \in Idx |-> diff(y.f_[j], i)]],
             !.trace = Append(@, "set_stiffness") ]

\* dK_[i][j] = diff(df_[i], x_[j]), K_[i][j] = diff(f_[i], x_[j])
set_stiffness(y) ==
  [ y EXCEPT !.dK_ = [i \in Idx |-> [j \in Idx |-> diff(y.df_[i], j)]],
             !.K_ = [i \in Idx |-> [j \in Idx |-> diff(y.f_[i], j)]],
             !.trace = Append(@, "set_stiffness") ]

\* every evaluator is compiled from the expression of its own array, all with
\* the argument list [x_, c_, t_, fnc_]
lambdify_expressions(y) ==
  [ y EXCEPT !.df__ = [i \in Idx |-> lambdify(LambdaArgs, y.df_[i])],
             !.f__ = [i \in Idx |-> lambdify(LambdaArgs, y.f_[i])],
             !.a__ = [i \in Idx |-> lambdify(LambdaArgs, y.a_[i])],
             !.dK__ = [i \in Idx |-> [j \in Idx |-> lambdify(LambdaArgs, y.dK_[i][j])]],
             !.K__ = [i \in Idx |-> [j \in Idx |-> lambdify(LambdaArgs, y.K_[i][j])]],
             !.trace = Append(@, "lambdify_expressions") ]

\* self.setup_arrays(), self.set_compartment_interfaces()
\* self.equation_map(), self.set_stiffness(), self.lambdify_expressions()
\* of a model with or without a coupled chamber
RecompileModel(coupled, R) ==
  lambdify_expressions(set_stiffness(equation_map(
    rerun_compartment_interfaces(set_solve_arrays(coupled)), R)))

\* mutant: the evaluators are compiled before the stiffness is differentiated
Recompile_early(R) ==
  set_stiffness(lambdify_expressions(equation_map(
    rerun_compartment_interfaces(set_solve_arrays(FALSE)), R)))

\* the same calls for the model of the time loop, which has no coupled chamber
Recompile(R) ==
  lambdify_expressions(set_stiffness(equation_map(
    rerun_compartment_interfaces(set_solve_arrays(FALSE)), R)))

\* the attributes the pipeline leaves behind
Symbolic(y) ==
  [ coupled |-> y.coupled, c_ |-> y.c_, fnc_ |-> y.fnc_, df_ |-> y.df_, f_ |-> y.f_,
    a_ |-> y.a_, dK_ |-> y.dK_, K_ |-> y.K_, trace |-> y.trace ]
Compiled(y) ==
  [ df__ |-> y.df__, f__ |-> y.f__, a__ |-> y.a__, dK__ |-> y.dK__, K__ |-> y.K__ ]

\* mutant: the file is opened in create mode by every call
cardvasc0D_write_output_wt(isinit, res, tt, var, auxv) ==
  [ lines |-> << tt >>, last |-> << tt, var, auxv >> ]

\* write_output: mode 'wt' when self.init, else 'a'; one line '%.16E %.16E' per call
cardvasc0D_write_output(isinit, res, tt, var, auxv) ==
  [ lines |-> IF isinit THEN << tt >> ELSE Append(res.lines, tt),
    last |-> << tt, var, auxv >> ]

(***************************************************************************)
(* Flow0DProblem: construction.                                            *)
(***************************************************************************)
dt == 1   \* self.dt, the unit of time

\* baseline valve resistances of the 0D model (model_params['parameters'])
Rbase == [ R_vin_l_max |-> 5, R_vin_l_min |-> 1, R_vout_l_max |-> 7, R_vout_l_min |-> 2 ]

NoPrescribed == [i \in {} |-> 0]

\* the attributes __init__ reads from time_params / model_params, with its
\* defaults: no perturb_type gives factor 1 and perturb_after_cylce -1
Flow0DProblem_init(T, ptype, pfactor, pafter, check, eps, theta, ibe, presc, midpoint) ==
  [ T_cycl |-> T,
    perturb_type |-> ptype,
    perturb_factor |-> IF ptype = None THEN 1 ELSE pfactor,
    perturb_after_cylce |-> IF ptype = None THEN -1 ELSE pafter,
    periodic_checktype |-> check,
    eps_periodic |-> eps,
    theta_ost |-> theta,
    initial_backwardeuler |-> ibe,
    prescribed_variables |-> presc,
    output_midpoint |-> midpoint,
    write_results_every_0D |-> 1,
    output_path_0D |-> "out",
    initialconditions |-> ZeroVec ]

\* configurations with a cardiac cycle: the periodicity and perturbation
\* controller in all its settings, default time integration
ControllerConfigs ==
  { Flow0DProblem_init(StepsPerCycle * dt, ptype, 2, pafter, check, eps, 1, FALSE,
                       NoPrescribed, TRUE) :
      ptype \in PerturbTypes \cup {None},
      pafter \in (-1)..MaxAfter,
      check \in {None, "allvar"},
      eps \in {1, 2} }

\* configurations of a model without a cycle time (T_cycl = 0)
NoCycleConfigs ==
  { Flow0DProblem_init(0, ptype, 3, 1, check, 1, 1, FALSE, NoPrescribed, TRUE) :
      ptype \in {None, "mr"},
      check \in {None, "allvar"} }

\* configurations that vary the time integration and the output
IntegratorConfigs ==
  { Flow0DProblem_init(StepsPerCycle * dt, None, 1, -1, "pQvar", 1, theta, ibe, presc,
                       midpoint) :
      theta \in {0, 1},
      ibe \in BOOLEAN,
      presc \in {NoPrescribed, (1 :> 1)},
      midpoint \in BOOLEAN }

Configs == ControllerConfigs \cup NoCycleConfigs \cup IntegratorConfigs

\* initial conditions of the runs
InitialConditions == { ZeroVec, [i \in Idx |-> MaxVal] }

\* self.cardvasc0D.initialize(var, iniparam): var takes the initial conditions
initialize(iniparam) == iniparam

\* mutant: the prior-cycle snapshot is left as created (zero)
SeedSnapshot_unseeded(iniparam) == ZeroVec

\* self.cardvasc0D.initialize(self.sTc_old, self.initialconditions)
SeedSnapshot(iniparam) == initialize(iniparam)

\* the state after construction, for configuration c and the model object y
\* that the symbolic pipeline has left
ConstructedWith(c, y) ==
  /\ cfg = c
  /\ s = initialize(c.initialconditions)
  /\ s_old = initialize(c.initialconditions)
  /\ sTc_old = SeedSnapshot(c.initialconditions)
  /\ sTc = ZeroVec
  /\ s_mid = ZeroVec
  /\ df = ZeroVec /\ df_old = ZeroVec
  /\ f = ZeroVec /\ f_old = ZeroVec
  /\ aux = ZeroVec /\ aux_old = ZeroVec /\ aux_mid = ZeroVec /\ auxTc_old = ZeroVec
  /\ dK = ZeroMat /\ K = ZeroMat
  /\ r = NoneC /\ Ktot = NoneC
  /\ cycle = 1
  /\ cycleerror = 1
  /\ have_induced_pert = FALSE
  /\ Rv = Rbase
  /\ sym = Symbolic(y)
  /\ lam = Compiled(y)
  /\ init = TRUE
  /\ results = [ lines |-> << >>, last |-> << >> ]
  /\ initial_data = NoneC
  /\ N = 0
  /\ t = 0
  /\ pc = "evaluate_initial"
  /\ ret = FALSE
  /\ npert = 0

\* the state after construction of a problem whose model has no coupled chamber
Constructed(c) == ConstructedWith(c, Recompile(Rbase))

\* no index-set request and no stand-alone set_prescribed_variables call
OtherIdle ==
  /\ isin = NoneC /\ isout = NoneC /\ pv = NoneC
  /\ ev = NoneC /\ rst = NoneC /\ ci = NoneC /\ vl = NoneC /\ rk = NoneC /\ jk = NoneC

Init ==
  /\ \E c \in Configs, ini \in InitialConditions :
       Constructed([c EXCEPT !.initialconditions = ini])
  /\ OtherIdle

(***************************************************************************)
(* Flow0DProblem: operations.                                              *)
(***************************************************************************)
\* self.ti.timecurves(curvenumber)(t): a user-defined time curve
timecurves(curvenumber, tt) == (tt + curvenumber) % (MaxVal + 1)

\* for a in self.prescribed_variables: s[varindex], s_old[varindex] = val, val
RECURSIVE PrescribeInitial(_, _, _)
PrescribeInitial(vec, todo, tt) ==
  IF todo = {} THEN vec
  ELSE LET a == CHOOSE k \in todo : TRUE
       IN PrescribeInitial(
            [vec EXCEPT ![a] = timecurves(cfg.prescribed_variables[a], tt)],
            todo \ {a}, tt)

evaluate_initial ==
  /\ pc = "evaluate_initial"
  /\ LET todo == DOMAIN cfg.prescribed_variables
         s1 == PrescribeInitial(s, todo, 0)
         so1 == PrescribeInitial(s_old, todo, 0)
     IN \E e \in { cardvasc0D_evaluate(so1, 0, df_old, f_old, NoneC, NoneC, << >>, << >>,
                                      aux_old, << >>) } :
          /\ s' = s1
          /\ s_old' = so1
          /\ df_old' = e.df
          /\ f_old' = e.f
          /\ aux_old' = e.a
          /\ auxTc_old' = e.a
  /\ pc' = "solve"
  /\ UNCHANGED << purevars, cfg, s_mid, sTc, sTc_old, df, f, aux, aux_mid, dK, K, r, Ktot,
                  cycle, cycleerror, have_induced_pert, Rv, sym, lam, init, results,
                  initial_data, N, t, ret, npert >>

\* mutant: the time is never set back to the start of the cycle
get_time_offset_none == 0 * cfg.T_cycl

\* (self.ti.cycle[0]-1) * self.cardvasc0D.T_cycl
get_time_offset == (cycle - 1) * cfg.T_cycl

\* one pass of the time loop begins: the step counter advances, the time in the
\* current cycle is taken, and the nonlinear solver leaves its iterate in s
solve_nonlinear_problem ==
  /\ pc = "solve"
  /\ N < MaxStep
  /\ N' = N + 1
  /\ t' = (N + 1) * dt - get_time_offset
  /\ s' \in Vecs
  /\ pc' = "evaluate"
  /\ UNCHANGED << purevars, cfg, s_old, s_mid, sTc, sTc_old, df, df_old, f, f_old, aux, aux_old,
                  aux_mid, auxTc_old, dK, K, r, Ktot, cycle, cycleerror,
                  have_induced_pert, Rv, sym, lam, init, results, initial_data, ret, npert >>

\* cardvasc0D.evaluate(s, t, df, f, dK, K, c, y, aux) inside the solver
evaluate ==
  /\ pc = "evaluate"
  /\ \E e \in { cardvasc0D_evaluate(s, t, df, f, dK, K, << >>, << >>, aux, << >>) } :
        /\ df' = e.df
        /\ f' = e.f
        /\ dK' = e.dK
        /\ K' = e.K
        /\ aux' = e.a
  /\ pc' = "assemble"
  /\ UNCHANGED << purevars, cfg, s, s_old, s_mid, sTc, sTc_old, df_old, f_old, aux_old, aux_mid,
                  auxTc_old, r, Ktot, cycle, cycleerror, have_induced_pert, Rv, sym, lam,
                  init, results, initial_data, N, t, ret, npert >>

\* mutant: the initial backward Euler step is not taken
theta0d_timint_ost(tt) == cfg.theta_ost

theta0d_timint(tt) ==
  IF cfg.initial_backwardeuler
  THEN IF IsClose(tt, dt) THEN 1 ELSE cfg.theta_ost
  ELSE cfg.theta_ost

\* for a in self.prescribed_variables: set_prescribed_variables(self.s, r, K, val, varindex)
RECURSIVE PrescribeAll(_, _, _)
PrescribeAll(rK, todo, tt) ==
  IF todo = {} THEN rK
  ELSE LET a == CHOOSE k \in todo : TRUE
       IN PrescribeAll(
            set_prescribed_variables(s, rK.r, rK.K,
                                     timecurves(cfg.prescribed_variables[a], tt),
                                     a, 0, numdof),
            todo \ {a}, tt)

\* r = (df - df_old)/dt + theta*f + (1-theta)*f_old,  K = dK/dt + theta*K
ResidualStiffness(tt) ==
  LET theta == theta0d_timint(tt)
  IN [ r |-> [i \in Idx |-> (df[i] - df_old[i]) \div dt
                            + theta * f[i] + (1 - theta) * f_old[i]],
       K |-> [i \in Idx |-> [j \in Idx |-> dK[i][j] \div dt + theta * K[i][j]]] ]

assemble_residual_stiffness ==
  /\ pc = "assemble"
  /\ LET rK == PrescribeAll(ResidualStiffness(t), DOMAIN cfg.prescribed_variables, t)
     IN /\ r' = rK.r
        /\ Ktot' = rK.K
  /\ pc' = "converged"
  /\ UNCHANGED << purevars, cfg, s, s_old, s_mid, sTc, sTc_old, df, df_old, f, f_old, aux, aux_old,
                  aux_mid, auxTc_old, dK, K, cycle, cycleerror, have_induced_pert, Rv,
                  sym, lam, init, results, initial_data, N, t, ret, npert >>

\* the solver accepts the iterate and drops the residual and the matrix
newton_converged ==
  /\ pc = "converged"
  /\ r' = NoneC
  /\ Ktot' = NoneC
  /\ pc' = "set_output_state"
  /\ UNCHANGED << purevars, cfg, s, s_old, s_mid, sTc, sTc_old, df, df_old, f, f_old, aux, aux_old,
                  aux_mid, auxTc_old, dK, K, cycle, cycleerror, have_induced_pert, Rv,
                  sym, lam, init, results, initial_data, N, t, ret, npert >>

\* mutant: the output vector and the committed vector change places
set_output_state_swapped ==
  /\ pc = "set_output_state"
  /\ s_old' = set_output_state_vec(s, s_mid, s_old, cfg.theta_ost,
                                   cfg.output_midpoint, 0, numdof)
  /\ aux_mid' = set_output_state_vec(aux, aux_old, aux_mid, cfg.theta_ost,
                                     cfg.output_midpoint, 0, numdof)
  /\ pc' = "write_output"
  /\ UNCHANGED << purevars, cfg, s, s_mid, sTc, sTc_old, df, df_old, f, f_old, aux,
                  aux_old, auxTc_old, dK, K, r, Ktot, cycle, cycleerror,
                  have_induced_pert, Rv, sym, lam, init, results, initial_data, N, t, ret,
                  npert >>

set_output_state ==
  /\ pc = "set_output_state"
  /\ s_mid' = set_output_state_vec(s, s_old, s_mid, cfg.theta_ost,
                                   cfg.output_midpoint, 0, numdof)
  /\ aux_mid' = set_output_state_vec(aux, aux_old, aux_mid, cfg.theta_ost,
                                     cfg.output_midpoint, 0, numdof)
  /\ pc' = "write_output"
  /\ UNCHANGED << purevars, cfg, s, s_old, sTc, sTc_old, df, df_old, f, f_old, aux, aux_old,
                  auxTc_old, dK, K, r, Ktot, cycle, cycleerror, have_induced_pert, Rv,
                  sym, lam, init, results, initial_data, N, t, ret, npert >>

write_output ==
  /\ pc = "write_output"
  /\ IF cfg.write_results_every_0D > 0 /\ N % cfg.write_results_every_0D = 0
     THEN /\ results' = cardvasc0D_write_output(init, results, N * dt, s_mid, aux_mid)
          /\ init' = FALSE
     ELSE UNCHANGED << results, init >>
  /\ pc' = "update"
  /\ UNCHANGED << purevars, cfg, s, s_old, s_mid, sTc, sTc_old, df, df_old, f, f_old, aux, aux_old,
                  aux_mid, auxTc_old, dK, K, r, Ktot, cycle, cycleerror,
                  have_induced_pert, Rv, sym, lam, initial_data, N, t, ret, npert >>

update ==
  /\ pc = "update"
  /\ LET u == cardvasc0D_update(s, df, f, s_old, df_old, f_old, aux, aux_old, 0, numdof)
     IN /\ s_old' = u.var_old
        /\ df_old' = u.df_old
        /\ f_old' = u.f_old
        /\ aux_old' = u.aux_old
  /\ pc' = "post"
  /\ UNCHANGED << purevars, cfg, s, s_mid, sTc, sTc_old, df, f, aux, aux_mid, auxTc_old, dK, K,
                  r, Ktot, cycle, cycleerror, have_induced_pert, Rv, sym, lam, init, results,
                  initial_data, N, t, ret, npert >>

\* the pass ends once induce_state_change and the cycle check have both run;
\* the loop is left when the cycle was found periodic or the last step is done
EndOfPass(first, abort) ==
  IF pc = "post" THEN first
  ELSE IF abort \/ N >= MaxStep THEN "done" ELSE "solve"

\* mutant: the perturbation is due in the threshold cycle already
PerturbationDue_atcycle == cfg.perturb_after_cylce > 0 /\ cycle >= cfg.perturb_after_cylce

\* Flow0DProblem.induce_perturbation: the guard of the scheduled perturbation
PerturbationDue == cfg.perturb_after_cylce > 0 /\ cycle > cfg.perturb_after_cylce

induce_state_change ==
  /\ pc \in {"post", "post_c"}
  /\ IF cfg.perturb_type # None /\ ~have_induced_pert /\ PerturbationDue
     THEN /\ Rv' = cardvasc0D_induce_perturbation(Rv, cfg.perturb_type, cfg.perturb_factor)
          /\ sym' = Symbolic(Recompile(Rv'))
          /\ lam' = Compiled(Recompile(Rv'))
          /\ have_induced_pert' = TRUE
          /\ npert' = npert + 1
     ELSE UNCHANGED << Rv, sym, lam, have_induced_pert, npert >>
  /\ pc' = EndOfPass("post_i", ret)
  /\ UNCHANGED << purevars, cfg, s, s_old, s_mid, sTc, sTc_old, df, df_old, f, f_old, aux, aux_old,
                  aux_mid, auxTc_old, dK, K, r, Ktot, cycle, cycleerror, init, results,
                  initial_data, N, t, ret >>

\* the parameters of cycle_check after self
cycle_check_params ==
  << "var", "varTc", "varTc_old", "t", "cycle", "cyclerr", "eps_periodic", "check",
     "inioutpath", "nm", "induce_pert_after_cycl" >>

\* the positional and the keyword arguments of the cycle_check call in
\* Flow0DProblem.check_abort
check_abort_args ==
  << "s", "sTc", "sTc_old", "aux", "auxTc", "auxTc_old", "t", "cycle", "cycleerror",
     "eps_periodic" >>
check_abort_kwargs == { "check", "inioutpath", "nm", "induce_pert_after_cycl" }

\* the positional and the keyword arguments of a call that follows the signature
cycle_check_args == << "s", "sTc", "sTc_old", "t", "cycle", "cycleerror", "eps_periodic" >>

\* Python's binding of a call to a signature: too many positional
\* arguments, a parameter given by position and by keyword, or a keyword
\* that is no parameter raise TypeError
BindCall(params, args, kwargs) ==
  IF Len(args) > Len(params) THEN "TypeError"
  ELSE IF \E k \in 1 .. Len(args) : params[k] \in kwargs THEN "TypeError"
  ELSE IF \E kw \in kwargs : \A k \in 1 .. Len(params) : params[k] # kw THEN "TypeError"
  ELSE None

\* Flow0DProblem.check_abort: the call hands cycle_check ten positional
\* arguments (the aux arrays among them), the eighth of which takes the
\* place of check, given by keyword as well; the call raises TypeError
\* before cycle_check is entered, nothing is changed and the run ends
check_abort ==
  /\ pc \in {"post", "post_i"}
  /\ BindCall(cycle_check_params, check_abort_args, check_abort_kwargs) = "TypeError"
  /\ pc' = "TypeError"
  /\ UNCHANGED << purevars, cfg, s, s_old, s_mid, sTc, sTc_old, df, df_old, f, f_old, aux,
                  aux_old, aux_mid, auxTc_old, dK, K, r, Ktot, cycle, cycleerror,
                  have_induced_pert, Rv, sym, lam, init, results, initial_data, N, t, ret,
                  npert >>

\* cardvasc0D.cycle_check(s, sTc, sTc_old, t, ti.cycle, ti.cycleerror,
\* eps_periodic, check=.., inioutpath=.., nm=.., induce_pert_after_cycl=..)
\* called by the driver with the problem's vectors and settings as the
\* signature takes them; ret is the value returned
cycle_check ==
  /\ pc \in {"post", "post_i"}
  /\ BindCall(cycle_check_params, cycle_check_args, check_abort_kwargs) = None
  /\ LET cc == cardvasc0D_cycle_check(s, sTc, sTc_old, t, cycle, cycleerror,
                                      cfg.eps_periodic, cfg.periodic_checktype,
                                      cfg.output_path_0D, cfg.perturb_after_cylce,
                                      initial_data, 0, numdof)
     IN /\ sTc' = cc.varTc
        /\ sTc_old' = cc.varTc_old
        /\ cycle' = cc.cycle
        /\ cycleerror' = cc.cyclerr
        /\ initial_data' = cc.initial_data
        /\ ret' = cc.is_periodic
        /\ pc' = EndOfPass("post_c", cc.is_periodic)
  /\ UNCHANGED << purevars, cfg, s, s_old, s_mid, df, df_old, f, f_old, aux, aux_old, aux_mid,
                  auxTc_old, dK, K, r, Ktot, have_induced_pert, Rv, sym, lam, init, results,
                  N, t, npert >>

\* FluidmechanicsAleFlow0DProblem.check_abort: the fluid-0D and the ALE problem's
\* check_abort are called, their values dropped and None (no abort) is returned
FluidmechanicsAleFlow0D_check_abort(pbf0_abort, pba_abort) == FALSE

Next ==
  \/ evaluate_initial
  \/ solve_nonlinear_problem
  \/ evaluate
  \/ assemble_residual_stiffness
  \/ newton_converged
  \/ set_output_state
  \/ write_output
  \/ update
  \/ induce_state_change
  \/ check_abort
  \/ cycle_check

Spec == Init /\ [][Next]_vars

(***************************************************************************)
(* Index sets of the coupled fluid-ALE-0D problem (specification SpecIS).  *)
(* The monolithic vector is laid out rank by rank; within a rank the first *)
(* field (velocity, or its reduced counterpart when a reduced-order model  *)
(* is present), pressure, multipliers and ALE displacement follow one      *)
(* another.  An input gives the number of ranks, each rank's local field   *)
(* sizes, the options, and len(rom.im_rom_r) as each rank sees it.         *)
(***************************************************************************)
MaxRanks == 2
MaxTotal == 3
MaxRom == 1


\* PETSc.IS().createStride(n, first=first, step=1)
createStride(n, first) == first .. (first + n - 1)

\* vec.getOwnershipRange()[0]: the local sizes of the preceding ranks, summed
RECURSIVE getOwnershipStart(_, _, _)
getOwnershipStart(size, fld, rank) ==
  IF rank = 0 THEN 0
  ELSE getOwnershipStart(size, fld, rank - 1) + size[rank - 1][fld]

\* mutant: the ALE displacement's ownership start is left out of the offset
offset_v_noale(size, rank) ==
  getOwnershipStart(size, "v", rank) + getOwnershipStart(size, "p", rank)
    + getOwnershipStart(size, "s", rank)

\* offset_v = the four vectors' ownership starts, summed
offset_v(size, rank) ==
  getOwnershipStart(size, "v", rank) + getOwnershipStart(size, "p", rank)
    + getOwnershipStart(size, "s", rank) + getOwnershipStart(size, "d", rank)

\* get_index_sets on one rank; the attribute rom exists only with have_rom
get_index_sets(isoptions, size, have_rom, romlen, rank) ==
  IF isoptions.rom_to_new /\ ~have_rom
  THEN [ error |-> TRUE, sets |-> << >> ]
  ELSE
    LET off_v  == offset_v(size, rank)
        iset_r == createStride(romlen[rank], off_v)
        iset_v == IF isoptions.rom_to_new
                  THEN createStride(size[rank].v, off_v) \ iset_r
                  ELSE createStride(size[rank].v, off_v)
        off_p  == off_v + size[rank].v
        iset_p == createStride(size[rank].p, off_p)
        off_s  == off_p + size[rank].p
        iset_l == createStride(size[rank].s, off_s)
        off_d  == off_s + size[rank].s
        iset_d == createStride(size[rank].d, off_d)
        iset_s == IF isoptions.rom_to_new THEN iset_l \cup iset_r ELSE iset_l
    IN  [ error |-> FALSE,
          sets  |-> IF isoptions.lms_to_p
                    THEN << iset_v, iset_p \cup iset_s, iset_d >>
                    ELSE IF isoptions.lms_to_v
                    THEN << iset_v \cup iset_s, iset_p, iset_d >>
                    ELSE << iset_v, iset_p, iset_s, iset_d >> ]

\* the layouts: up to MaxTotal degrees of freedom dealt to the fields of the
\* ranks; cell c is field c % 4 of rank c \div 4, cell 4 * nr is the discard
Dealt(deal, rank, k) ==
  Cardinality({ i \in DOMAIN deal : deal[i] = 4 * rank + k })
Layout(nr, deal) ==
  [ rank \in 0 .. nr - 1 |->
      [ v |-> Dealt(deal, rank, 0), p |-> Dealt(deal, rank, 1),
        s |-> Dealt(deal, rank, 2), d |-> Dealt(deal, rank, 3) ] ]
Deals(nr) ==
  { deal \in [1 .. MaxTotal -> 0 .. 4 * nr] :
      \A i \in 1 .. MaxTotal - 1 : deal[i] <= deal[i + 1] }

IsOptions == [ rom_to_new : BOOLEAN, lms_to_p : BOOLEAN, lms_to_v : BOOLEAN ]

\* without the option the length of im_rom_r is never read
RomLengths(nr, o, hr) ==
  IF o.rom_to_new /\ hr THEN [0 .. nr - 1 -> 0 .. MaxRom]
  ELSE { [rank \in 0 .. nr - 1 |-> 0] }

\* a flow problem that is constructed and never stepped
IdleFlow0D ==
  Constructed(Flow0DProblem_init(0, None, 1, -1, None, 1, 1, FALSE, NoPrescribed,
                                 FALSE))

InitIS ==
  /\ IdleFlow0D
  /\ pv = NoneC /\ ev = NoneC /\ rst = NoneC /\ ci = NoneC /\ vl = NoneC /\ rk = NoneC /\ jk = NoneC
  /\ isout = NoneC
  /\ \E nr \in 1 .. MaxRanks, o \in IsOptions, hr \in BOOLEAN :
       \E rl \in RomLengths(nr, o, hr), deal \in Deals(nr) :
         isin = [ nranks |-> nr, size |-> Layout(nr, deal), isoptions |-> o,
                  have_rom |-> hr, romlen |-> rl ]

\* every rank of the communicator calls get_index_sets
CallGetIndexSets ==
  /\ IsNone(isout)
  /\ isout' = [ rank \in 0 .. isin.nranks - 1 |->
                  get_index_sets(isin.isoptions, isin.size, isin.have_rom,
                                 isin.romlen, rank) ]
  /\ UNCHANGED << flowvars, isin, pv, ev, rst, ci, vl, rk, jk >>

NextIS == CallGetIndexSets

SpecIS == InitIS /\ [][NextIS]_vars

(***************************************************************************)
(* Prescribed variables (specification SpecPV).  pv holds the arguments of *)
(* set_prescribed_variables: the state x, the residual r and the matrix K  *)
(* the call writes to, the value and the index.  The vector is owned by    *)
(* two processes, [0, split) and [split, numdof); both make the call, and  *)
(* make it again.  rin, Kin are the arguments as first passed and r1, K1   *)
(* as they were after the first application.                               *)
(***************************************************************************)
Mats == [Idx -> Vecs]

\* x.getOwnershipRange() on a process (split = numdof: one process owns it all)
getOwnershipRange(proc, split) ==
  IF proc = 0 THEN << 0, split >> ELSE << split, numdof >>

InitPV ==
  /\ IdleFlow0D
  /\ isin = NoneC /\ isout = NoneC /\ ev = NoneC /\ rst = NoneC /\ ci = NoneC /\ vl = NoneC /\ rk = NoneC /\ jk = NoneC
  /\ \E x \in Vecs, rin \in Vecs, Kin \in Mats, val \in Vals, i \in Idx,
        split \in 0 .. numdof :
       pv = [ x |-> x, r |-> rin, K |-> Kin, val |-> val, index_prescribed |-> i,
              split |-> split, xin |-> x, rin |-> rin, Kin |-> Kin,
              r1 |-> rin, K1 |-> Kin, applied |-> 0, called |-> {} ]

\* one process makes the call; the application is complete when both have
CallSetPrescribed(proc) ==
  /\ pv.applied < 2
  /\ proc \notin pv.called
  /\ LET own  == getOwnershipRange(proc, pv.split)
         rK   == set_prescribed_variables(pv.x, pv.r, pv.K, pv.val,
                                          pv.index_prescribed, own[1], own[2])
         last == pv.called \cup {proc} = {0, 1}
     IN  pv' = [ pv EXCEPT !.r = rK.r, !.K = rK.K,
                           !.called = IF last THEN {} ELSE pv.called \cup {proc},
                           !.applied = IF last THEN pv.applied + 1 ELSE pv.applied,
                           !.r1 = IF last /\ pv.applied = 0 THEN rK.r ELSE pv.r1,
                           !.K1 = IF last /\ pv.applied = 0 THEN rK.K ELSE pv.K1 ]
  /\ UNCHANGED << flowvars, isvars, ev, rst, ci, vl, rk, jk >>

NextPV == \E proc \in {0, 1} : CallSetPrescribed(proc)

SpecPV == InitPV /\ [][NextPV]_vars

(***************************************************************************)
(* A stand-alone evaluate call (specification SpecEV).  ev holds the       *)
(* arguments: x, t, c, y, fnc and the five containers, each either omitted *)
(* (None) or an array with some content; passed is the containers as first *)
(* handed over.  The call is made twice on the same objects.               *)
(***************************************************************************)
Containers == {"df", "f", "dK", "K", "a"}

\* an array of the container's shape, filled with v
Filled(n, v) ==
  IF n \in {"dK", "K"} THEN [i \in Idx |-> [j \in Idx |-> v]] ELSE [i \in Idx |-> v]

InitEV ==
  /\ IdleFlow0D
  /\ isin = NoneC /\ isout = NoneC /\ pv = NoneC /\ rst = NoneC /\ ci = NoneC /\ vl = NoneC /\ rk = NoneC /\ jk = NoneC
  /\ \E x \in Vecs, tt \in {0, dt}, given \in SUBSET Containers, v \in Vals :
       LET cont == [n \in Containers |-> IF n \in given THEN Filled(n, v) ELSE NoneC]
       IN  ev = [ x |-> x, t |-> tt, c |-> << >>, y |-> << >>, fnc |-> << >>,
                  passed |-> cont, now |-> cont, first |-> cont, calls |-> 0 ]

\* evaluate(x, t, df, f, dK, K, c, y, a, fnc) on the containers as they are
CallEvaluate ==
  /\ ev.calls < 2
  /\ LET e == cardvasc0D_evaluate(ev.x, ev.t, ev.now.df, ev.now.f, ev.now.dK,
                                  ev.now.K, ev.c, ev.y, ev.now.a, ev.fnc)
         after == [n \in Containers |-> e[n]]
     IN  ev' = [ ev EXCEPT !.now = after,
                           !.first = IF ev.calls = 0 THEN after ELSE @,
                           !.calls = @ + 1 ]
  /\ UNCHANGED << flowvars, isvars, pv, rst, ci, vl, rk, jk >>

NextEV == CallEvaluate

SpecEV == InitEV /\ [][NextEV]_vars

(***************************************************************************)
(* Restart (specification SpecRS).  rst holds the problem that writes the  *)
(* checkpoint of step N (pb), the files of the output directory, and the   *)
(* freshly constructed problem of the same model that reads step rstep     *)
(* (rd).  A vector of n entries is a function over 0..n-1; a file is the   *)
(* sequence of its lines; a number in a file is its printed digits.        *)
(***************************************************************************)
MaxDof == 2          \* numdof of the models written and read: 1..MaxDof
Precision == 16      \* digits after the point of '%.16E'
FracDigits == 8      \* digits after the point of '%.8f'

RECURSIVE Pow10(_)
Pow10(k) == IF k = 0 THEN 1 ELSE 10 * Pow10(k - 1)
RECURSIVE NumDigits(_)
NumDigits(v) == IF v < 10 THEN 1 ELSE 1 + NumDigits(v \div 10)

\* '%.16E' % v for a whole v: sign, the leading digit and Precision further
\* digits (mant[k + 1] is the digit of weight 10^(exp - k)), the exponent
FormatE(v) ==
  LET e == NumDigits(Abs(v)) - 1
  IN  [ neg |-> v < 0, exp |-> e,
        mant |-> [ k \in 1 .. Precision + 1 |->
                     IF k - 1 <= e THEN (Abs(v) \div Pow10(e - (k - 1))) % 10 ELSE 0 ] ]

\* float(text): the digits of weight one and above, with their sign (the
\* digits below weight one are zero for every whole number printed)
RECURSIVE Weighted(_, _, _)
Weighted(mant, e, k) ==
  IF k > Len(mant) \/ k - 1 > e THEN 0
  ELSE mant[k] * Pow10(e - (k - 1)) + Weighted(mant, e, k + 1)
ParseE(txt) == (IF txt.neg THEN -1 ELSE 1) * Weighted(txt.mant, txt.exp, 1)

\* '%i %.8f' % (cycle, cycleerror) and the two columns read back
FormatCycledata(cyc, err) ==
  [ col0 |-> cyc, col1 |-> [ int |-> err, frac |-> [k \in 1 .. FracDigits |-> 0] ] ]

Filename(nm, step) == << "checkpoint", nm, step >>

\* write_restart(path, nm, N, var): one line per entry, in index order
cardvasc0D_write_restart(files, nm, step, var) ==
  LET n == Cardinality(DOMAIN var)
  IN  (Filename(nm, step) :> [ i \in 1 .. n |-> FormatE(var[i - 1]) ]) @@ files

\* np.loadtxt of a file of numbers: a file of one line gives an array of no
\* dimension, a longer file a vector
loadtxt(lines) ==
  IF Len(lines) = 1 THEN [ ndim |-> 0, data |-> ParseE(lines[1]) ]
  ELSE [ ndim |-> 1, data |-> [ i \in 1 .. Len(lines) |-> ParseE(lines[i]) ] ]

\* read_restart(path, nm, rstep, var): var[:] = restart_data[:]; the value
\* is the vector var afterwards, or the exception raised
cardvasc0D_read_restart(files, nm, step, var) ==
  IF Filename(nm, step) \notin DOMAIN files THEN [ error |-> "OSError", var |-> var ]
  ELSE LET restart_data == loadtxt(files[Filename(nm, step)])
           n == Cardinality(DOMAIN var)
       IN  IF restart_data.ndim = 0 THEN [ error |-> "IndexError", var |-> var ]
           ELSE IF Len(restart_data.data) # n THEN [ error |-> "ValueError", var |-> var ]
           ELSE [ error |-> None, var |-> [ i \in 0 .. n - 1 |-> restart_data.data[i + 1] ] ]

RestartVals == (0 .. MaxVal) \cup {12, -120}
ZeroN(n) == [i \in 0 .. n - 1 |-> 0]

\* a problem as constructed: s, s_old and sTc_old initialized with the
\* initial conditions, the auxiliary vectors zero, first cycle
FreshProblem(pb) ==
  [ s |-> initialize(pb.initialconditions), s_old |-> initialize(pb.initialconditions),
    aux |-> ZeroN(pb.n), aux_old |-> ZeroN(pb.n),
    sTc_old |-> initialize(pb.initialconditions), cycle |-> 1, cycleerror |-> 1,
    t_init |-> 0 ]

InitRS ==
  /\ IdleFlow0D
  /\ isin = NoneC /\ isout = NoneC /\ pv = NoneC /\ ev = NoneC /\ ci = NoneC /\ vl = NoneC /\ rk = NoneC /\ jk = NoneC
  /\ \E n \in 1 .. MaxDof, Tc \in {0, StepsPerCycle}, cyc \in 1 .. MaxAfter + 1 :
       \E sv \in [0 .. n - 1 -> RestartVals], av \in {0, 12}, Tv \in {0, -120},
          ic \in {ZeroN(n), [i \in 0 .. n - 1 |-> MaxVal]} :
         LET pb == [ n |-> n, initialconditions |-> ic, s |-> sv,
                     aux |-> [i \in 0 .. n - 1 |-> av],
                     sTc_old |-> [i \in 0 .. n - 1 |-> IF i = 0 THEN Tv ELSE 0],
                     cycle |-> cyc, cycleerror |-> IF cyc = 1 THEN 1 ELSE 0,
                     T_cycl |-> Tc ]
         IN  rst = [ pb |-> pb, files |-> << >>, N |-> 0, rstep |-> 0,
                     rd |-> FreshProblem(pb), stage |-> "run", error |-> None ]

\* Flow0DProblem.writerestart(sname, N) of the running problem
writerestart ==
  /\ rst.stage = "run"
  /\ \E step \in 1 .. StepsPerCycle :
       LET pb == rst.pb
           f1 == cardvasc0D_write_restart(rst.files, "s", step, pb.s)
           f2 == cardvasc0D_write_restart(f1, "aux", step, pb.aux)
           f3 == cardvasc0D_write_restart(f2, "sTc_old", step, pb.sTc_old)
           f4 == IF pb.T_cycl > 0
                 THEN (Filename("cycledata", step) :>
                         FormatCycledata(pb.cycle, pb.cycleerror)) @@ f3
                 ELSE f3
       IN  rst' = [ rst EXCEPT !.files = f4, !.N = step, !.stage = "written" ]
  /\ UNCHANGED << flowvars, isvars, pv, ev, ci, vl, rk, jk >>

\* the five read_restart calls of readrestart, in order; the first exception
\* ends the sequence
ReadAll(files, step, rd) ==
  LET r1 == cardvasc0D_read_restart(files, "s", step, rd.s)
      r2 == cardvasc0D_read_restart(files, "s", step, rd.s_old)
      r3 == cardvasc0D_read_restart(files, "aux", step, rd.aux)
      r4 == cardvasc0D_read_restart(files, "aux", step, rd.aux_old)
      r5 == cardvasc0D_read_restart(files, "sTc_old", step, rd.sTc_old)
  IN  IF r1.error # None THEN [ error |-> r1.error, rd |-> rd ]
      ELSE IF r2.error # None THEN [ error |-> r2.error, rd |-> [ rd EXCEPT !.s = r1.var ] ]
      ELSE IF r3.error # None
        THEN [ error |-> r3.error, rd |-> [ rd EXCEPT !.s = r1.var, !.s_old = r2.var ] ]
      ELSE IF r4.error # None
        THEN [ error |-> r4.error,
               rd |-> [ rd EXCEPT !.s = r1.var, !.s_old = r2.var, !.aux = r3.var ] ]
      ELSE [ error |-> r5.error,
             rd |-> [ rd EXCEPT !.s = r1.var, !.s_old = r2.var, !.aux = r3.var,
                                !.aux_old = r4.var,
                                !.sTc_old = IF r5.error = None THEN r5.var ELSE @ ] ]

\* Flow0DProblem.readrestart(sname, rst) of the fresh problem
readrestart ==
  /\ rst.stage = "written"
  /\ \E step \in {rst.N, rst.N + 1} :
       LET fresh == [ rst.rd EXCEPT !.t_init = step * dt ]
           got == ReadAll(rst.files, step, fresh)
           T == rst.pb.T_cycl
           cyc == rst.files[Filename("cycledata", step)].col0
           err == rst.files[Filename("cycledata", step)].col1.int
       IN  rst' = [ rst EXCEPT
                      !.rstep = step, !.stage = "read", !.error = got.error,
                      !.rd = IF got.error = None /\ T > 0
                             THEN [ got.rd EXCEPT !.cycle = cyc, !.cycleerror = err,
                                                  !.t_init = @ - (cyc - 1) * T ]
                             ELSE got.rd ]
  /\ UNCHANGED << flowvars, isvars, pv, ev, ci, vl, rk, jk >>

NextRS == writerestart \/ readrestart

SpecRS == InitRS /\ [][NextRS]_vars

(***************************************************************************)
(* Compartment interfaces (specification SpecCI).  ci holds a              *)
(* configuration (model type, the five chamber models, coupling and        *)
(* variable quantity per chamber, coronary model, valve law), the arrays   *)
(* of the 0D model object built from it, and the position reached in the   *)
(* construction.  Symbols are strings; an exception is the name of its     *)
(* class.  The index of chamber ch in the source's list is i, 0-based; ch   *)
(* of ci is the chamber of a single set_coupling_state call.               *)
(***************************************************************************)
MaxFlows == 2        \* largest num_inflows / num_outflows of a 3D_fluid chamber
NumChambers == 5

Chambers == << "lv", "rv", "la", "ra", "ao" >>
ChIdx == 0 .. NumChambers - 1
chn(i) == << "v_l", "v_r", "at_l", "at_r", "aort_sys" >>[i + 1]
Zero == "0"

\* not in src/ (the derived model classes): the indices of the chambers'
\* unknowns and coupling quantities, and the arrays before the interfaces
\* are set
vindex_ch(i) == 2 * i + 1
cindex_ch(i) == i
setup_arrays ==
  [ switch_V |-> [i \in ChIdx |-> 1], vname |-> [i \in ChIdx |-> "p_" \o chn(i)],
    si |-> [i \in ChIdx |-> 0], cname |-> << >>, v_ids |-> << >>, c_ids |-> << >>,
    x_ |-> [k \in 0 .. 2 * NumChambers - 1 |-> Zero], c_ |-> << >>, fnc_ |-> << >>,
    error |-> None ]

Raise(o, e) == [ o EXCEPT !.error = e ]

\* flow0d.py: the dispatch on model_params['modeltype']; "chambers" tells
\* whether the model class takes chamber models
WindkesselTypes == {"2elwindkessel", "4elwindkesselLsZ", "4elwindkesselLpZ"}
HeartTypes == {"syspul", "syspulcap", "syspulcapcor", "syspulcaprespir"}
modeltype_dispatch(modeltype) ==
  IF modeltype \in WindkesselTypes THEN [ error |-> None, chambers |-> FALSE ]
  ELSE IF modeltype \in HeartTypes THEN [ error |-> None, chambers |-> TRUE ]
  ELSE [ error |-> "NameError", chambers |-> FALSE ]

\* valvelaw: the branch on vparams[0]
ValveLaws ==
  {"pwlin_pres", "pwlin_time", "smooth_pres_resistance", "smooth_pres_momentum",
   "pw_pres_regurg"}
valvelaw_default(token) == None
valvelaw(token) == IF token \in ValveLaws THEN None ELSE "NameError"

\* set_compartment_interfaces, chamber type 'prescribed'
interface_prescribed_volume(o, cq, i) ==
  IF cq \in {"volume", "flux"}
  THEN [ o EXCEPT !.switch_V[i] = 1,
                  !.cname = Append(@, (IF cq = "volume" THEN "V_" ELSE "Q_") \o chn(i)) ]
  ELSE Raise(o, "NameError")
interface_prescribed(o, cq, i) ==
  IF cq = "volume"
  THEN [ o EXCEPT !.switch_V[i] = 1, !.cname = Append(@, "V_" \o chn(i)) ]
  ELSE IF cq = "flux"
  THEN [ o EXCEPT !.switch_V[i] = 0, !.cname = Append(@, "Q_" \o chn(i)) ]
  ELSE Raise(o, "NameError")

\* mutant: a flux-coupled 3D solid records its variable index only
interface_3D_solid_fluxvar(o, cq, vq, i) ==
  IF cq = "volume"
  THEN [ o EXCEPT !.v_ids = Append(@, vindex_ch(i)), !.c_ids = Append(@, cindex_ch(i)),
                  !.cname = Append(@, "V_" \o chn(i)),
                  !.switch_V[i] = 1, !.vname[i] = "p_" \o chn(i) ]
  ELSE IF cq = "flux"
  THEN [ o EXCEPT !.cname = Append(@, "Q_" \o chn(i)),
                  !.switch_V[i] = 0, !.vname[i] = "p_" \o chn(i),
                  !.v_ids = Append(@, vindex_ch(i)) ]
  ELSE IF cq = "pressure"
  THEN IF vq \in {"volume", "flux"}
       THEN [ o EXCEPT !.switch_V[i] = IF vq = "volume" THEN 1 ELSE 0,
                       !.vname[i] = (IF vq = "volume" THEN "V_" ELSE "Q_") \o chn(i),
                       !.cname = Append(@, "p_" \o chn(i)),
                       !.si[i] = 1,
                       !.v_ids = Append(@, vindex_ch(i) - 1) ]
       ELSE Raise(o, "ValueError")
  ELSE Raise(o, "NameError")

\* set_compartment_interfaces, chamber type '3D_solid'
interface_3D_solid(o, cq, vq, i) ==
  IF cq = "volume"
  THEN [ o EXCEPT !.v_ids = Append(@, vindex_ch(i)), !.c_ids = Append(@, cindex_ch(i)),
                  !.cname = Append(@, "V_" \o chn(i)),
                  !.switch_V[i] = 1, !.vname[i] = "p_" \o chn(i) ]
  ELSE IF cq = "flux"
  THEN [ o EXCEPT !.cname = Append(@, "Q_" \o chn(i)),
                  !.switch_V[i] = 0, !.vname[i] = "p_" \o chn(i),
                  !.v_ids = Append(@, vindex_ch(i)), !.c_ids = Append(@, cindex_ch(i)) ]
  ELSE IF cq = "pressure"
  THEN IF vq \in {"volume", "flux"}
       THEN [ o EXCEPT !.switch_V[i] = IF vq = "volume" THEN 1 ELSE 0,
                       !.vname[i] = (IF vq = "volume" THEN "V_" ELSE "Q_") \o chn(i),
                       !.cname = Append(@, "p_" \o chn(i)),
                       !.si[i] = 1,
                       !.v_ids = Append(@, vindex_ch(i) - 1) ]
       ELSE Raise(o, "ValueError")
  ELSE Raise(o, "NameError")

\* the coupling names of the boundaries of one kind: p_<chn>_i1 .. p_<chn>_im
FlowNames(i, kind, m) == [ k \in 1 .. m |-> "p_" \o chn(i) \o "_" \o kind \o ToString(k) ]

\* set_compartment_interfaces, chamber type '3D_fluid'
interface_3D_fluid_outfirst(o, cq, flows, cormodel, i) ==
  IF cq # "pressure" THEN Raise(o, "AssertionError")
  ELSE [ o EXCEPT !.switch_V[i] = 0, !.vname[i] = "Q_" \o chn(i),
                  !.si[i] = IF Chambers[i + 1] # "ao" THEN 1 ELSE @,
                  !.cname = @ \o FlowNames(i, "o", flows.num_outflows)
                              \o FlowNames(i, "i", flows.num_inflows)
                              \o (IF flows.num_inflows = 0 /\ cormodel # None
                                     /\ Chambers[i + 1] = "ao"
                                  THEN << "p_v_l_o1" >> ELSE << >>) ]
interface_3D_fluid(o, cq, flows, cormodel, i) ==
  IF cq # "pressure" THEN Raise(o, "AssertionError")
  ELSE [ o EXCEPT !.switch_V[i] = 0, !.vname[i] = "Q_" \o chn(i),
                  !.si[i] = IF Chambers[i + 1] # "ao" THEN 1 ELSE @,
                  !.cname = @ \o FlowNames(i, "i", flows.num_inflows)
                              \o FlowNames(i, "o", flows.num_outflows)
                              \o (IF flows.num_inflows = 0 /\ cormodel # None
                                     /\ Chambers[i + 1] = "ao"
                                  THEN << "p_v_l_o1" >> ELSE << >>) ]

\* set_compartment_interfaces: the body of the loop for chamber i
compartment_interface(o, cf, i) ==
  LET type == cf.chmodels[i].type
  IN  IF type \in {"0D_elast", "0D_elast_prescr"} THEN [ o EXCEPT !.switch_V[i] = 1 ]
      ELSE IF type = "0D_rigid" THEN [ o EXCEPT !.switch_V[i] = 0 ]
      ELSE IF type = "prescribed" THEN interface_prescribed(o, cf.cq[i], i)
      ELSE IF type = "3D_solid" THEN interface_3D_solid(o, cf.cq[i], cf.vq[i], i)
      ELSE IF type = "3D_fluid"
        THEN interface_3D_fluid(o, cf.cq[i], cf.chmodels[i], cf.cormodel, i)
      ELSE Raise(o, "NameError")

\* set_compartment_interfaces: the loop over the chambers from i on; an
\* exception leaves the loop
RECURSIVE set_compartment_interfaces(_, _, _)
set_compartment_interfaces(o, cf, i) ==
  IF i >= NumChambers \/ o.error # None THEN o
  ELSE set_compartment_interfaces(compartment_interface(o, cf, i), cf, i + 1)

\* not in src/ (equation_map of the derived model classes): the symbols a
\* chamber hands to set_coupling_state, chvars = {'VQ', 'pi1', .., 'po1', ..},
\* and its driving function chfncs[0]
ChVars(i) ==
  [ VQ |-> "VQ_" \o chn(i) \o "_",
    pi |-> [ k \in 1 .. MaxFlows |-> "p_" \o chn(i) \o "_i" \o ToString(k) \o "_" ],
    po |-> [ k \in 1 .. MaxFlows |-> "p_" \o chn(i) \o "_o" \o ToString(k) \o "_" ] ]
ChFnc(i) == "E_" \o chn(i) \o "_"

\* all "distributed" p are equal to "main" p of chamber (= pi1)
Distribute(cv) ==
  [ cv EXCEPT !.pi = [k \in DOMAIN @ |-> cv.pi[1]], !.po = [k \in DOMAIN @ |-> cv.pi[1]] ]

\* mutant: a pressure-coupled chamber hands its volume or flux to the coupling array
coupling_3D_solid_vq(o, cq, cv, i) ==
  LET d == Distribute(cv)
  IN  IF cq \in {"volume", "flux"} THEN [ o |-> [ o EXCEPT !.c_ = Append(@, d.VQ) ], chvars |-> d ]
      ELSE IF cq = "pressure"
      THEN [ o |-> [ o EXCEPT !.x_[vindex_ch(i) - o.si[i]] = d.VQ, !.c_ = Append(@, d.VQ) ],
             chvars |-> d ]
      ELSE [ o |-> o, chvars |-> d ]

\* set_coupling_state, chamber type '3D_solid' or 'prescribed'
coupling_3D_solid(o, cq, cv, i) ==
  LET d == Distribute(cv)
  IN  IF cq \in {"volume", "flux"} THEN [ o |-> [ o EXCEPT !.c_ = Append(@, d.VQ) ], chvars |-> d ]
      ELSE IF cq = "pressure"
      THEN [ o |-> [ o EXCEPT !.x_[vindex_ch(i) - o.si[i]] = d.VQ, !.c_ = Append(@, d.pi[1]) ],
             chvars |-> d ]
      ELSE [ o |-> o, chvars |-> d ]

\* set_coupling_state, chamber type '3D_fluid'
coupling_3D_fluid(o, cq, vq, flows, cormodel, cv, i) ==
  IF ~(cq = "pressure" /\ vq = "flux") THEN [ o |-> Raise(o, "AssertionError"), chvars |-> cv ]
  ELSE LET m == flows.num_inflows
           n == flows.num_outflows
           pin == [ k \in DOMAIN cv.pi |-> IF k = 1 /\ m = 0 THEN Zero
                                           ELSE IF k > m THEN cv.pi[1] ELSE cv.pi[k] ]
           pout == [ k \in DOMAIN cv.po |-> IF k = 1 /\ n = 0 THEN Zero
                                            ELSE IF k > n THEN cv.po[1] ELSE cv.po[k] ]
           extra == IF m = 0 /\ cormodel # None /\ Chambers[i + 1] = "ao"
                    THEN << "p_v_l_o1_" >> ELSE << >>
       IN  [ o |-> [ o EXCEPT !.x_[vindex_ch(i) - o.si[i]] = cv.VQ,
                              !.c_ = @ \o SubSeq(pin, 1, m) \o SubSeq(pout, 1, n) \o extra ],
             chvars |-> [ cv EXCEPT !.pi = pin, !.po = pout ] ]

\* set_coupling_state: the attribute holding the chamber's unstressed volume,
\* self.V_v_l_u, .., self.V_ar_sys_u for the aortic root
V_unstressed(i) ==
  IF Chambers[i + 1] = "ao" THEN "V_ar_sys_u" ELSE "V_" \o chn(i) \o "_u"

\* set_coupling_state(ch, chvars, chfncs): the object and the dictionary
\* chvars after the call
set_coupling_state(o, cf, cv, i) ==
  LET type == cf.chmodels[i].type
      Vu == V_unstressed(i)
  IN  IF type \in {"0D_elast", "0D_elast_prescr"}
      THEN [ o |-> [ o EXCEPT !.fnc_ = Append(@, ChFnc(i)) ],
             chvars |-> Distribute([ cv EXCEPT !.VQ = cv.pi[1] \o "/" \o ChFnc(i) \o "+" \o Vu ]) ]
      ELSE IF type = "0D_rigid"
      THEN [ o |-> o, chvars |-> Distribute([ cv EXCEPT !.VQ = Zero ]) ]
      ELSE IF type \in {"3D_solid", "prescribed"} THEN coupling_3D_solid(o, cf.cq[i], cv, i)
      ELSE IF type = "3D_fluid"
        THEN coupling_3D_fluid(o, cf.cq[i], cf.vq[i], cf.chmodels[i], cf.cormodel, cv, i)
      ELSE [ o |-> Raise(o, "NameError"), chvars |-> cv ]

\* not in src/ (equation_map of the derived model classes): the calls of
\* set_coupling_state for the chambers from i on, an exception ending them
RECURSIVE coupling_states(_, _, _, _)
coupling_states(o, cf, cvs, i) ==
  IF i >= NumChambers \/ o.error # None THEN [ o |-> o, chvars |-> cvs ]
  ELSE LET one == set_coupling_state(o, cf, cvs[i], i)
       IN  coupling_states(one.o, cf, [ cvs EXCEPT ![i] = one.chvars ], i + 1)

ChamberTypes == {"0D_elast", "0D_elast_prescr", "0D_rigid", "prescribed", "3D_solid", "3D_fluid"}
Quantities == {"volume", "flux", "pressure"}

\* the settings of the one chamber that varies: the quantities matter to
\* the prescribed and the 3D chambers, the boundaries to the 3D_fluid one
ChamberSettings ==
  { c \in [ type : ChamberTypes \cup {"unknown"}, cq : Quantities \cup {"unknown"},
            vq : {"volume", "flux", "unknown"},
            num_inflows : 0 .. MaxFlows, num_outflows : 0 .. MaxFlows ] :
      /\ c.type \notin {"prescribed", "3D_solid", "3D_fluid"} => c.cq = "volume" /\ c.vq = "volume"
      /\ c.type = "3D_fluid" => c.cq \in {"volume", "pressure"} /\ c.vq \in {"volume", "flux"}
      /\ c.type # "3D_fluid" => c.num_inflows = 1 /\ c.num_outflows = 1 }
\* the other chambers: all elastance chambers, or all 3D solids coupled by volume
BaseSettings ==
  { [ type |-> "0D_elast", cq |-> "volume", vq |-> "pressure", num_inflows |-> 1, num_outflows |-> 1 ],
    [ type |-> "3D_solid", cq |-> "volume", vq |-> "pressure", num_inflows |-> 1, num_outflows |-> 1 ] }

Config(modeltype, free, c, base, cormodel, token) ==
  LET at(i) == IF i = free THEN c ELSE base
  IN  [ modeltype |-> modeltype,
        chmodels |-> [ i \in ChIdx |-> [ type |-> at(i).type, num_inflows |-> at(i).num_inflows,
                                         num_outflows |-> at(i).num_outflows ] ],
        cq |-> [ i \in ChIdx |-> at(i).cq ], vq |-> [ i \in ChIdx |-> at(i).vq ],
        cormodel |-> cormodel, valvelaw |-> token ]

InitCI ==
  /\ IdleFlow0D
  /\ isin = NoneC /\ isout = NoneC /\ pv = NoneC /\ ev = NoneC /\ rst = NoneC /\ vl = NoneC /\ rk = NoneC /\ jk = NoneC
  /\ \E modeltype \in {"2elwindkessel", "syspul", "syspulcapcor", "unknown"} :
       \E free \in ChIdx, c \in ChamberSettings, base \in BaseSettings,
          cormodel \in {None, "ZCRp_CRd"}, token \in {"pwlin_pres", "pw_pres_regurg", "unknown"} :
         /\ modeltype \notin HeartTypes =>
              /\ free = 0 /\ c.type = "0D_elast" /\ base.type = "0D_elast"
              /\ cormodel = None /\ token = "pwlin_pres"
         /\ ci = [ cf |-> Config(modeltype, free, c, base, cormodel, token),
                   o |-> NoneC, chvars |-> NoneC, stage |-> "config", raised_in |-> None,
                   ch |-> -1 ]

\* Flow0DProblem.__init__: the model class is chosen and its arrays are set up
Flow0DProblem_modeltype ==
  /\ ci.stage = "config"
  /\ LET d == modeltype_dispatch(ci.cf.modeltype)
     IN  ci' = [ ci EXCEPT
                   !.stage = IF d.error # None THEN "failed"
                             ELSE IF d.chambers THEN "arrays" ELSE "built",
                   !.raised_in = IF d.error # None THEN "Flow0DProblem" ELSE @,
                   !.o = IF d.error # None THEN Raise(setup_arrays, d.error) ELSE setup_arrays,
                   !.chvars = [ i \in ChIdx |-> ChVars(i) ] ]
  /\ UNCHANGED << flowvars, isvars, pv, ev, rst, vl, rk, jk >>

\* the model class calls set_compartment_interfaces()
CallSetCompartmentInterfaces ==
  /\ ci.stage = "arrays"
  /\ LET o == set_compartment_interfaces(ci.o, ci.cf, 0)
     IN  ci' = [ ci EXCEPT !.o = o,
                           !.stage = IF o.error # None THEN "failed" ELSE "interfaces",
                           !.raised_in = IF o.error # None THEN "set_compartment_interfaces" ELSE @ ]
  /\ UNCHANGED << flowvars, isvars, pv, ev, rst, vl, rk, jk >>

\* the model class calls equation_map(): set_coupling_state for every
\* chamber, then the valve laws
CallEquationMap ==
  /\ ci.stage = "interfaces"
  /\ LET cs == coupling_states(ci.o, ci.cf, ci.chvars, 0)
         v == valvelaw(ci.cf.valvelaw)
     IN  ci' = [ ci EXCEPT
                   !.o = IF cs.o.error # None THEN cs.o ELSE Raise(cs.o, v),
                   !.chvars = cs.chvars,
                   !.stage = IF cs.o.error # None \/ v # None THEN "failed" ELSE "equations",
                   !.raised_in = IF cs.o.error # None THEN "set_coupling_state"
                                 ELSE IF v # None THEN "valvelaw" ELSE @ ]
  /\ UNCHANGED << flowvars, isvars, pv, ev, rst, vl, rk, jk >>

\* set_coupling_state(ch, chvars) called for one chamber on the arrays as set up
CallSetCouplingState ==
  /\ ci.stage = "arrays"
  /\ \E i \in ChIdx :
       LET one == set_coupling_state(ci.o, ci.cf, ci.chvars[i], i)
       IN  ci' = [ ci EXCEPT !.o = one.o, !.chvars[i] = one.chvars, !.stage = "direct", !.ch = i,
                             !.raised_in = IF one.o.error # None THEN "set_coupling_state" ELSE @ ]
  /\ UNCHANGED << flowvars, isvars, pv, ev, rst, vl, rk, jk >>

NextCI ==
  \/ Flow0DProblem_modeltype
  \/ CallSetCompartmentInterfaces
  \/ CallEquationMap
  \/ CallSetCouplingState

SpecCI == InitCI /\ [][NextCI]_vars

(***************************************************************************)
(* The time-controlled valve law (specification SpecVL).  vl holds the     *)
(* arguments of a valvelaw call with vparams[0] = 'pwlin_time', the time   *)
(* the compiled expression is evaluated at, and the result.  Pressures are *)
(* multiples of both resistances, so the quotient is a whole number.       *)
(***************************************************************************)
MaxTime == 3         \* largest opening, closing and evaluation time of a valve law

\* sp.Piecewise: the pairs whose condition holds
PiecewiseBranches(pairs) == {k \in DOMAIN pairs : pairs[k][2]}

\* sp.Piecewise: the expression of the first pair whose condition holds (nan, here 0, if none does)
Piecewise(pairs) ==
  IF PiecewiseBranches(pairs) = {} THEN 0
  ELSE pairs[CHOOSE k \in PiecewiseBranches(pairs) :
                \A m \in PiecewiseBranches(pairs) : k <= m][1]

\* mutant: the open window never wraps around the end of the cycle
pwlin_time_nowrap(Rmin, Rmax, topen, tclose, tt) ==
  << <<Rmax, tt < topen \/ tt >= tclose>>, <<Rmin, tt >= topen /\ tt < tclose>> >>

\* the (expression, condition) pairs of R for 'pwlin_time'
pwlin_time(Rmin, Rmax, topen, tclose, tt) ==
  IF topen > tclose
  THEN << <<Rmax, tt < topen /\ tt >= tclose>>, <<Rmin, tt >= topen \/ tt < tclose>> >>
  ELSE << <<Rmax, tt < topen \/ tt >= tclose>>, <<Rmin, tt >= topen /\ tt < tclose>> >>

\* valvelaw(p, popen, Rmin, Rmax, ['pwlin_time'], topen, tclose), evaluated at time tt
valvelaw_pwlin_time(p, popen, Rmin, Rmax, topen, tclose, tt) ==
  LET pairs == pwlin_time(Rmin, Rmax, topen, tclose, tt)
      R == Piecewise(pairs)
  IN  [ applies |-> PiecewiseBranches(pairs), R |-> R, vl |-> (popen - p) \div R ]

\* the valve resistances and the pressures of the calls
ValveR == [ Rmin |-> 1, Rmax |-> 2 ]
Pressures == { 0, ValveR.Rmin * ValveR.Rmax }

InitVL ==
  /\ IdleFlow0D
  /\ isin = NoneC /\ isout = NoneC /\ pv = NoneC /\ ev = NoneC /\ rst = NoneC
  /\ ci = NoneC /\ rk = NoneC /\ jk = NoneC
  /\ \E p \in Pressures, popen \in Pressures :
       \E topen \in 0 .. MaxTime, tclose \in 0 .. MaxTime, tt \in 0 .. MaxTime :
         vl = [ p |-> p, popen |-> popen, Rmin |-> ValveR.Rmin, Rmax |-> ValveR.Rmax,
                topen |-> topen, tclose |-> tclose, t |-> tt, out |-> NoneC ]

\* the valve law is built and its expression evaluated at vl.t
CallValvelaw ==
  /\ IsNone(vl.out)
  /\ vl' = [ vl EXCEPT !.out = valvelaw_pwlin_time(vl.p, vl.popen, vl.Rmin, vl.Rmax,
                                                   vl.topen, vl.tclose, vl.t) ]
  /\ UNCHANGED << flowvars, isvars, pv, ev, rst, ci, rk, jk >>

NextVL == CallValvelaw

SpecVL == InitVL /\ [][NextVL]_vars

(***************************************************************************)
(* A state vector distributed over ranks (specification SpecRK).  rk holds *)
(* the number of ranks n, the ownership ranges (rank q owns                *)
(* [own[q], own[q+1])), the distributed vectors as a whole, each rank's    *)
(* own aux arrays and cycle counter, and each rank's position: it calls    *)
(* update, then cycle_check at the end of a cycle.  The committed vectors  *)
(* and the snapshots start with the values of an earlier step.             *)
(***************************************************************************)
\* getOwnershipRange() of the ranks: contiguous ranges that tile 0..numdof-1
Ownerships(n) ==
  { b \in [0 .. n -> 0 .. numdof] :
      /\ b[0] = 0 /\ b[n] = numdof
      /\ \A q \in 0 .. n - 1 : b[q] <= b[q + 1] }

\* the entries of an earlier step
Earlier == [i \in Idx |-> -1]

InitRK ==
  /\ Constructed(Flow0DProblem_init(StepsPerCycle * dt, None, 1, -1, None, 1, 1, FALSE,
                                    NoPrescribed, FALSE))
  /\ isin = NoneC /\ isout = NoneC /\ pv = NoneC /\ ev = NoneC /\ rst = NoneC
  /\ ci = NoneC /\ vl = NoneC /\ jk = NoneC
  /\ \E n \in 1 .. MaxRanks :
       \E b \in Ownerships(n), x \in Vecs, dfn \in Vecs, fn \in Vecs :
         rk = [ n |-> n, own |-> b,
                var |-> x, df |-> dfn, f |-> fn, aux |-> x,
                var_old |-> Earlier, df_old |-> Earlier, f_old |-> Earlier,
                varTc |-> Earlier, varTc_old |-> Earlier,
                aux_old |-> [q \in 0 .. n - 1 |-> Earlier],
                cycle |-> [q \in 0 .. n - 1 |-> 1],
                is_periodic |-> [q \in 0 .. n - 1 |-> FALSE],
                at |-> [q \in 0 .. n - 1 |-> "update"] ]

\* rank q calls update(var, df, f, var_old, df_old, f_old, aux, aux_old)
RankUpdate(q) ==
  /\ rk.at[q] = "update"
  /\ LET u == cardvasc0D_update(rk.var, rk.df, rk.f, rk.var_old, rk.df_old, rk.f_old,
                                rk.aux, rk.aux_old[q], rk.own[q], rk.own[q + 1])
     IN  rk' = [ rk EXCEPT !.var_old = u.var_old, !.df_old = u.df_old, !.f_old = u.f_old,
                           !.aux_old[q] = u.aux_old, !.at[q] = "cycle_check" ]
  /\ UNCHANGED << flowvars, isvars, pv, ev, rst, ci, vl, jk >>

\* rank q calls cycle_check(var, varTc, varTc_old, t, cycle, ..) at t = T_cycl
RankCycleCheck(q) ==
  /\ rk.at[q] = "cycle_check"
  /\ LET cc == cardvasc0D_cycle_check(rk.var, rk.varTc, rk.varTc_old, cfg.T_cycl,
                                      rk.cycle[q], cycleerror, cfg.eps_periodic,
                                      cfg.periodic_checktype, cfg.output_path_0D,
                                      cfg.perturb_after_cylce, initial_data,
                                      rk.own[q], rk.own[q + 1])
     IN  rk' = [ rk EXCEPT !.varTc = cc.varTc, !.varTc_old = cc.varTc_old,
                           !.cycle[q] = cc.cycle, !.is_periodic[q] = cc.is_periodic,
                           !.at[q] = "done" ]
  /\ UNCHANGED << flowvars, isvars, pv, ev, rst, ci, vl, jk >>

NextRK ==
  \/ \E q \in 0 .. MaxRanks - 1 : q < rk.n /\ RankUpdate(q)
  \/ \E q \in 0 .. MaxRanks - 1 : q < rk.n /\ RankCycleCheck(q)

SpecRK == InitRK /\ [][NextRK]_vars

(***************************************************************************)
(* The Jacobian of a compiled model (specification SpecJK).  The model     *)
(* object is the one of the flow variables Rv, sym and lam, built with or  *)
(* without a coupled chamber; jk holds the arguments of the latest         *)
(* evaluate call on it and the containers the call filled.                 *)
(***************************************************************************)
MaxPert == 2         \* calls of the model's induce_perturbation in a run

\* the coupling inputs and function values a model takes: one entry each
\* for a model with a coupled chamber, none without
ListInputs(coupled) == IF coupled THEN { << v >> : v \in Vals } ELSE { << >> }

InitJK ==
  /\ \E coupled \in BOOLEAN :
       /\ ConstructedWith(Flow0DProblem_init(0, None, 1, -1, None, 1, 1, FALSE, NoPrescribed,
                                             FALSE),
                          RecompileModel(coupled, Rbase))
       /\ jk = [ coupled |-> coupled, x |-> ZeroVec, c |-> << >>, t |-> 0, fnc |-> << >>,
                 out |-> NoneC ]
  /\ isin = NoneC /\ isout = NoneC /\ pv = NoneC /\ ev = NoneC /\ rst = NoneC
  /\ ci = NoneC /\ vl = NoneC /\ rk = NoneC

\* evaluate(x, t, df, f, dK, K, c, y, a, fnc) with every container given, once
\* for each compilation
CallEvaluateAll ==
  /\ IsNone(jk.out)
  /\ \E x \in Vecs, tt \in 0 .. StepsPerCycle :
       \E c \in ListInputs(jk.coupled), fnc \in ListInputs(jk.coupled) :
         jk' = [ jk EXCEPT !.x = x, !.c = c, !.t = tt, !.fnc = fnc,
                           !.out = cardvasc0D_evaluate(x, tt, ZeroVec, ZeroVec, ZeroMat,
                                                       ZeroMat, c, << >>, ZeroVec, fnc) ]
  /\ UNCHANGED << flowvars, isvars, pv, ev, rst, ci, vl, rk >>

\* cardvasc0D.induce_perturbation(perturb_type, perturb_factor) on the model;
\* the record of an earlier evaluate call is dropped
CallInducePerturbation ==
  /\ npert < MaxPert
  /\ \E perturb_type \in PerturbTypes, perturb_factor \in {2} :
       /\ Rv' = cardvasc0D_induce_perturbation(Rv, perturb_type, perturb_factor)
       /\ sym' = Symbolic(RecompileModel(jk.coupled, Rv'))
       /\ lam' = Compiled(RecompileModel(jk.coupled, Rv'))
  /\ npert' = npert + 1
  /\ jk' = [ jk EXCEPT !.x = ZeroVec, !.c = << >>, !.t = 0, !.fnc = << >>, !.out = NoneC ]
  /\ UNCHANGED << isvars, pv, ev, rst, ci, vl, rk, cfg, s, s_old, s_mid, sTc, sTc_old, df,
                  df_old, f, f_old, aux, aux_old, aux_mid, auxTc_old, dK, K, r, Ktot, cycle,
                  cycleerror, have_induced_pert, init, results, initial_data, N, t, pc, ret >>

NextJK == CallEvaluateAll \/ CallInducePerturbation

SpecJK == InitJK /\ [][NextJK]_vars

(***************************************************************************)
(* Properties of the time loop (specification Spec).                       *)
(***************************************************************************)
\* the steps of the time loop, told apart by the position they leave
CycleCheckStep ==
  \/ pc = "post" /\ pc' = "post_c"
  \/ pc = "post_i" /\ pc' \notin {"post_i", "TypeError"}
CheckAbortStep == pc \in {"post", "post_i"} /\ pc' = "TypeError"
InduceStep == (pc = "post" /\ pc' = "post_i") \/ (pc = "post_c" /\ pc' # "post_c")
UpdateStep == pc = "update" /\ pc' = "post"

\* C1: cycle_check returns True exactly when T_cycl > 0, t equals T_cycl within
\* tolerance, a check type is configured and the error between the new snapshot
\* and varTc_old is below eps_periodic, and the cycle counter before the
\* increment is greater than induce_pert_after_cycl.
C1_PeriodicIff ==
  [][ CycleCheckStep =>
        ( ret' <=> ( /\ cfg.T_cycl > 0
                     /\ IsClose(t, cfg.T_cycl)
                     /\ cfg.periodic_checktype # None
                     /\ CycleError(s, sTc_old, cfg.periodic_checktype) < cfg.eps_periodic
                     /\ cycle > cfg.perturb_after_cylce ) ) ]_vars

C1_Witness ==
  /\ ret
  /\ cfg.perturb_type # None
  /\ cycle > cfg.perturb_after_cylce + 1

\* C2: with no perturbation scheduled and a check type configured, a run whose
\* state at the first cycle end (absolute time T_cycl) equals the initial
\* conditions sTc_old was seeded with reports periodic at that cycle_check call;
\* the loop is left with that report, so no later cycle end is examined.
C2_PeriodicAtFirstCycleEnd ==
  /\ [][ ( /\ CycleCheckStep
           /\ cfg.perturb_type = None
           /\ cfg.periodic_checktype # None
           /\ cfg.T_cycl > 0
           /\ N * dt = cfg.T_cycl
           /\ s = cfg.initialconditions )
         => ret' ]_vars
  /\ [](ret => pc \in {"post_c", "done"})

C2_Witness ==
  /\ ret
  /\ cfg.perturb_type = None
  /\ N * dt = cfg.T_cycl
  /\ s = cfg.initialconditions
  /\ s # ZeroVec
  /\ pc = "done"

\* C3 as stated: for any configured threshold N the model's induce_perturbation
\* has been invoked exactly once after every induce_state_change call at which
\* the cycle counter exceeds N, and not before.
C3_Original ==
  [][ (InduceStep /\ cfg.perturb_type # None) =>
        npert' = (IF cycle > cfg.perturb_after_cylce THEN 1 ELSE 0) ]_vars

\* C3 amended: for a configured perturbation type with threshold N >= 1 the
\* model's induce_perturbation is invoked exactly once, at the first
\* induce_state_change call at which the cycle counter is greater than N, never
\* at a call where it is at most N and never again; with N <= 0 it is never
\* invoked.
C3_PerturbOnceAfterN ==
  [][ (InduceStep /\ cfg.perturb_type # None) =>
        npert' = (IF cfg.perturb_after_cylce >= 1 /\ cycle > cfg.perturb_after_cylce
                  THEN 1 ELSE 0) ]_vars

C3_Witness ==
  /\ npert = 1
  /\ have_induced_pert
  /\ cfg.perturb_after_cylce >= 1
  /\ pc = "done"
  /\ N = MaxStep
  /\ cycle > cfg.perturb_after_cylce + 1

\* the resistance each perturbation type selects
C4_Selected(n) ==
  \/ cfg.perturb_type = "mr" /\ n = "R_vin_l_max"
  \/ cfg.perturb_type = "ms" /\ n = "R_vin_l_min"
  \/ cfg.perturb_type = "ar" /\ n = "R_vout_l_max"
  \/ cfg.perturb_type = "as" /\ n = "R_vout_l_min"

\* C4: once the perturbation has been applied, the resistance selected by the
\* perturbation type is its baseline times perturb_factor (once) and the other
\* three are at their baseline; before, all four are at their baseline.
C4_ScaledOnce ==
  \A n \in {"R_vin_l_max", "R_vin_l_min", "R_vout_l_max", "R_vout_l_min"} :
    Rv[n] = IF npert >= 1 /\ C4_Selected(n) THEN Rbase[n] * cfg.perturb_factor
            ELSE Rbase[n]

C4_Witness ==
  /\ npert = 1
  /\ cfg.perturb_type = "ar"
  /\ Rv.R_vout_l_max = 14
  /\ Rv.R_vout_l_min = 2
  /\ pc = "done"

\* C9: update makes the old copies equal to the new ones and leaves the new ones
\* alone; another update right after it changes nothing.
C9_UpdateCommits ==
  [][ UpdateStep =>
        /\ s_old' = s /\ df_old' = df /\ f_old' = f /\ aux_old' = aux
        /\ UNCHANGED << s, df, f, aux >>
        /\ cardvasc0D_update(s', df', f', s_old', df_old', f_old', aux', aux_old',
                             0, numdof)
             = [ var_old |-> s_old', df_old |-> df_old', f_old |-> f_old',
                 aux_old |-> aux_old' ] ]_vars

C9_Witness ==
  /\ pc = "post"
  /\ N >= 2
  /\ s_old = s /\ df_old = df /\ f_old = f /\ aux_old = aux
  /\ f # df
  /\ s # cfg.initialconditions

\* C10: after initialization the committed state s_old, df_old, f_old, aux_old
\* changes in update only: every other step of the time loop leaves it alone.
C10_CommittedOnlyInUpdate ==
  [][ (pc # "evaluate_initial" /\ ~UpdateStep) => UNCHANGED committed ]_vars

C10_Witness ==
  /\ pc = "done"
  /\ npert = 1
  /\ cycle >= 3
  /\ s_old # cfg.initialconditions
  /\ f_old # ZeroVec

(***************************************************************************)
(* Properties of the index sets (specification SpecIS).                    *)
(***************************************************************************)
Ranks == 0 .. isin.nranks - 1
LocalTotal(rank) ==
  isin.size[rank].v + isin.size[rank].p + isin.size[rank].s + isin.size[rank].d
RECURSIVE TotalBefore(_)
TotalBefore(rank) == IF rank = 0 THEN 0 ELSE TotalBefore(rank - 1) + LocalTotal(rank - 1)
GlobalRange == 0 .. (TotalBefore(isin.nranks) - 1)
RankSlice(rank) == TotalBefore(rank) .. (TotalBefore(rank) + LocalTotal(rank) - 1)
\* a rank's multiplier indices: after its velocity and pressure indices
MultiplierSlice(rank) ==
  LET first == TotalBefore(rank) + isin.size[rank].v + isin.size[rank].p
  IN  first .. (first + isin.size[rank].s - 1)
RankUnion(rank) == UNION { isout[rank].sets[i] : i \in DOMAIN isout[rank].sets }
Returned == { << rank, i >> : rank \in Ranks, i \in 1 .. 4 }
Has(ri) == ri[2] \in DOMAIN isout[ri[1]].sets
SetOf(ri) == isout[ri[1]].sets[ri[2]]
\* the returned sets are pairwise disjoint and cover the global range once
Tiles ==
  /\ \A a, b \in { ri \in Returned : Has(ri) } : a # b => SetOf(a) \cap SetOf(b) = {}
  /\ UNION { RankUnion(rank) : rank \in Ranks } = GlobalRange
BothMerges == isin.isoptions.lms_to_p /\ isin.isoptions.lms_to_v

\* C5: without a reduced-order model and for each merge policy (none, lms_to_p,
\* lms_to_v) the sets returned over all ranks are pairwise disjoint and their
\* union is the global range; each rank's sets make up one contiguous slice that
\* starts at the sum of the preceding ranks' local sizes; four sets are returned
\* without merging, three with lms_to_p (multipliers inside the pressure set) and
\* three with lms_to_v (multipliers inside the velocity set).
C5_IndexSetsTile ==
  (~IsNone(isout) /\ ~isin.have_rom /\ ~isin.isoptions.rom_to_new /\ ~BothMerges) =>
    /\ \A rank \in Ranks : ~isout[rank].error
    /\ Tiles
    /\ \A rank \in Ranks :
         /\ RankUnion(rank) = RankSlice(rank)
         /\ Len(isout[rank].sets) =
              (IF isin.isoptions.lms_to_p \/ isin.isoptions.lms_to_v THEN 3 ELSE 4)
         /\ isin.isoptions.lms_to_p => MultiplierSlice(rank) \subseteq isout[rank].sets[2]
         /\ isin.isoptions.lms_to_v => MultiplierSlice(rank) \subseteq isout[rank].sets[1]

C5_Witness ==
  /\ ~IsNone(isout)
  /\ ~isin.have_rom /\ ~isin.isoptions.rom_to_new
  /\ isin.isoptions.lms_to_v /\ ~isin.isoptions.lms_to_p
  /\ isin.nranks = 2
  /\ isin.size[0].d = 1
  /\ isin.size[1].p = 1 /\ isin.size[1].s = 1
  /\ isout[1].sets = << {2}, {1}, {} >>

\* C6: a request with lms_to_p and lms_to_v both set is rejected with an error
\* and returns no index sets.
C6_BothMergesRejected ==
  (~IsNone(isout) /\ BothMerges) =>
    \A rank \in Ranks : isout[rank].error /\ isout[rank].sets = << >>

\* C7: with rom_to_new the len(im_rom_r) indices from the first field's offset
\* are taken out of the first field's set and put into the multiplier set, and
\* for every length and every layout the returned sets stay pairwise disjoint
\* and cover the global range once.
C7_RomTiles ==
  (~IsNone(isout) /\ isin.isoptions.rom_to_new /\ isin.have_rom
     /\ ~isin.isoptions.lms_to_p /\ ~isin.isoptions.lms_to_v) =>
    /\ Tiles
    /\ \A rank \in Ranks :
         LET rom == TotalBefore(rank) .. (TotalBefore(rank) + isin.romlen[rank] - 1)
         IN  /\ isout[rank].sets[1] \cap rom = {}
             /\ rom \subseteq isout[rank].sets[3]

(***************************************************************************)
(* Properties of the prescribed variables (specification SpecPV).          *)
(***************************************************************************)
UnitRow(i) == [j \in Idx |-> IF j = i THEN 1 ELSE 0]

\* C8: after set_prescribed_variables(x, r, K, v, i), for any x, r[i] = x[i] - v
\* and row i of K is the unit row; the other rows of r and K and x itself are as
\* before; after a second application with the same arguments r and K are as
\* they were after the first.
C8_PrescribedRow ==
  (~IsNone(pv) /\ pv.applied >= 1) =>
    LET i == pv.index_prescribed
    IN  /\ pv.r[i] = pv.x[i] - pv.val
        /\ pv.K[i] = UnitRow(i)
        /\ \A k \in Idx \ {i} : pv.r[k] = pv.rin[k] /\ pv.K[k] = pv.Kin[k]
        /\ pv.x = pv.xin
        /\ pv.applied = 2 => (pv.r = pv.r1 /\ pv.K = pv.K1)

C8_Witness ==
  /\ ~IsNone(pv)
  /\ pv.applied = 2
  /\ pv.split = 1
  /\ pv.index_prescribed = 1
  /\ pv.x[1] = 1 /\ pv.val = 0
  /\ pv.rin = ZeroVec
  /\ pv.r[1] = 1
  /\ pv.Kin[1] = [j \in Idx |-> 1]
  /\ pv.K[1] = UnitRow(1)

(***************************************************************************)
(* Further properties of the time loop (specification Spec).               *)
(***************************************************************************)
\* theta as C12 states it, for the time passed to assemble_residual_stiffness
C12_Theta == IF cfg.initial_backwardeuler /\ IsClose(t, dt) THEN 1 ELSE cfg.theta_ost
C12_ResidualRow(i) ==
  r[i] = (df[i] - df_old[i]) \div dt + C12_Theta * f[i] + (1 - C12_Theta) * f_old[i]
C12_StiffnessRow(i) ==
  \A j \in Idx : Ktot[i][j] = dK[i][j] \div dt + C12_Theta * K[i][j]

\* C12 as stated: assemble_residual_stiffness(t) returns
\* r = (df - df_old)/dt + theta*f + (1 - theta)*f_old and K = dK/dt + theta*K_f
\* in every row, with theta = 1 exactly when initial_backwardeuler is configured
\* and t equals dt within tolerance, and theta = theta_ost otherwise.
C12_Original ==
  pc = "converged" => \A i \in Idx : C12_ResidualRow(i) /\ C12_StiffnessRow(i)

\* C12 amended: the formulas hold in every row that does not belong to a
\* prescribed variable; the row of a prescribed variable i is
\* r[i] = s[i] - val(t) and the unit row of K.
C12_ResidualStiffness ==
  pc = "converged" =>
    \A i \in Idx :
      IF i \in DOMAIN cfg.prescribed_variables
      THEN /\ r[i] = s[i] - timecurves(cfg.prescribed_variables[i], t)
           /\ Ktot[i] = [j \in Idx |-> IF j = i THEN 1 ELSE 0]
      ELSE C12_ResidualRow(i) /\ C12_StiffnessRow(i)

C12_Witness ==
  /\ pc = "converged"
  /\ cfg.initial_backwardeuler /\ cfg.theta_ost = 0
  /\ N = 1
  /\ cfg.prescribed_variables # NoPrescribed
  /\ f[0] # f_old[0]
  /\ r[0] = (df[0] - df_old[0]) + f[0]

\* the number of write_output calls made so far (results are written every step)
C14_Calls ==
  IF pc \in {"evaluate_initial", "solve", "update", "post", "post_i", "post_c", "done",
            "TypeError"}
  THEN N ELSE N - 1

\* C14: only the first write_output call opens the files in create mode, every
\* later one appends, so after k calls a file holds k lines, in call order; no
\* later operation switches the mode back to create.
C14_AppendAfterFirst ==
  /\ [](init <=> C14_Calls = 0)
  /\ [](results.lines = [k \in 1 .. C14_Calls |-> k * dt])
  /\ [][~init => ~init']_vars

C14_Witness ==
  /\ ~init
  /\ results.lines = << 1, 2, 3 >>
  /\ npert = 1
  /\ cycle >= 2
  /\ pc = "post"

\* C19: every call of the model's induce_perturbation re-runs array setup,
\* compartment-interface resolution, equation generation, differentiation and
\* compilation in this order, so the evaluators in use are always those built
\* from the current parameter values; no other operation changes them.
C19_RecompiledOnPerturbation ==
  /\ [](\E eq \in { Equations(FALSE, Rv) } :
            /\ sym.trace = << "setup_arrays", "set_compartment_interfaces", "equation_map",
                              "set_stiffness", "lambdify_expressions" >>
            /\ sym.df_ = eq.df_ /\ sym.f_ = eq.f_ /\ sym.a_ = eq.a_
            /\ \A i \in Idx :
                 /\ lam.df__[i] = lambdify(LambdaArgs, eq.df_[i])
                 /\ lam.f__[i] = lambdify(LambdaArgs, eq.f_[i])
                 /\ lam.a__[i] = lambdify(LambdaArgs, eq.a_[i])
            /\ \A i \in Idx, j \in Idx :
                 /\ sym.dK_[i][j] = diff(eq.df_[i], j)
                 /\ sym.K_[i][j] = diff(eq.f_[i], j)
                 /\ lam.dK__[i][j] = lambdify(LambdaArgs, diff(eq.df_[i], j))
                 /\ lam.K__[i][j] = lambdify(LambdaArgs, diff(eq.f_[i], j)))
  /\ [][(lam' # lam \/ sym' # sym) => (InduceStep /\ npert' = npert + 1)]_vars

C19_Witness ==
  /\ npert = 1
  /\ pc = "assemble"
  /\ Rv # Rbase
  /\ K = Kcoef(Rv)
  /\ K # Kcoef(Rbase)
  /\ f # ZeroVec

\* C20 as stated: at a cycle end where cycle_check reports periodic, the cycle
\* counter is not incremented and sTc_old is not overwritten.
C20_Original ==
  [][(CycleCheckStep /\ ret') => (cycle' = cycle /\ sTc_old' = sTc_old)]_vars

\* C20 amended: at every cycle end, periodic or not, the new snapshot is copied
\* into sTc_old and the cycle counter is incremented (when periodic, after the
\* initial data were written from the old snapshot); away from a cycle end
\* neither changes.
C20_SnapshotAndCounter ==
  [][CycleCheckStep =>
       IF cfg.T_cycl > 0 /\ IsClose(t, cfg.T_cycl)
       THEN /\ cycle' = cycle + 1
            /\ sTc' = s /\ sTc_old' = s
            /\ ret' => initial_data' = [ Tstart |-> sTc_old, Tend |-> s ]
       ELSE UNCHANGED << cycle, sTc, sTc_old >> /\ ~ret']_vars

C20_Witness ==
  /\ ret
  /\ cycle = 2
  /\ sTc_old = s
  /\ ~IsNone(initial_data)
  /\ initial_data.Tstart # initial_data.Tend
  /\ initial_data.Tend = sTc_old

(***************************************************************************)
(* Properties of evaluate (specification SpecEV).                          *)
(***************************************************************************)
\* what the evaluators give for the call's x, c, t, fnc
C11_Value(n) ==
  IF n = "df" THEN [i \in Idx |-> df__(i, ev.x, ev.c, ev.t, ev.fnc)]
  ELSE IF n = "f" THEN [i \in Idx |-> f__(i, ev.x, ev.c, ev.t, ev.fnc)]
  ELSE IF n = "a" THEN [i \in Idx |-> a__(i, ev.x, ev.c, ev.t, ev.fnc)]
  ELSE IF n = "dK"
       THEN [i \in Idx |-> [j \in Idx |-> dK__(i, j, ev.x, ev.c, ev.t, ev.fnc)]]
  ELSE [i \in Idx |-> [j \in Idx |-> K__(i, j, ev.x, ev.c, ev.t, ev.fnc)]]

\* C11: evaluate changes neither x, c, y nor an attribute of the model; of the
\* containers df, f, dK, K, a it writes exactly those that are passed, with the
\* evaluators' values, and an omitted one stays omitted; a second call with the
\* same inputs writes the same values.
C11_EvaluateWritesPassed ==
  /\ [](~IsNone(ev) /\ ev.calls >= 1 =>
          /\ \A n \in Containers :
               ev.now[n] = IF IsNone(ev.passed[n]) THEN NoneC ELSE C11_Value(n)
          /\ ev.now = ev.first)
  /\ [][ev' # ev => /\ ev'.x = ev.x /\ ev'.c = ev.c /\ ev'.y = ev.y
                    /\ ev'.passed = ev.passed
                    /\ UNCHANGED flowvars]_vars

C11_Witness ==
  /\ ~IsNone(ev)
  /\ ev.calls = 2
  /\ IsNone(ev.passed.df) /\ IsNone(ev.passed.dK) /\ IsNone(ev.passed.K)
  /\ ev.passed.f = ZeroVec /\ ev.passed.a = ZeroVec
  /\ ev.x = [i \in Idx |-> 1]
  /\ ev.now.f # ZeroVec
  /\ IsNone(ev.now.df)

(***************************************************************************)
(* Properties of the restart (specification SpecRS).                       *)
(***************************************************************************)
\* the checkpoint of step N has been read back without an exception
RestartRead == rst.stage = "read" /\ rst.rstep = rst.N

\* C13: writing a vector and reading it back reproduces it exactly, and
\* after writerestart at step N and readrestart of N both s and s_old
\* equal the written s, both aux and aux_old the written aux, and sTc_old
\* and (for a model with a heart cycle) the cycle counter the written values
C13_RestartRoundTrip ==
  RestartRead =>
    /\ rst.error = None
    /\ rst.rd.s = rst.pb.s /\ rst.rd.s_old = rst.pb.s
    /\ rst.rd.aux = rst.pb.aux /\ rst.rd.aux_old = rst.pb.aux
    /\ rst.rd.sTc_old = rst.pb.sTc_old
    /\ (rst.pb.T_cycl > 0 => rst.rd.cycle = rst.pb.cycle)

\* the same for vectors of two and more entries
RS_RoundTripLonger == rst.pb.n >= 2 => C13_RestartRoundTrip

(***************************************************************************)
(* Properties of the compartment interfaces (specification SpecCI).        *)
(***************************************************************************)
CI_type(i) == ci.cf.chmodels[i].type
CI_NoFluid == \A i \in ChIdx : CI_type(i) # "3D_fluid"

\* set_compartment_interfaces has returned without an exception
CI_InterfacesSet ==
  \/ ci.stage \in {"interfaces", "equations"}
  \/ ci.stage = "failed" /\ ci.raised_in \in {"set_coupling_state", "valvelaw"}
\* set_compartment_interfaces has been called
CI_InterfacesCalled == ci.stage \in {"interfaces", "equations", "failed"} /\ ci.raised_in # "Flow0DProblem"
\* equation_map has made its set_coupling_state calls without an exception
CI_StatesSet == ci.stage = "equations" \/ (ci.stage = "failed" /\ ci.raised_in = "valvelaw")

RECURSIVE CI_Concat(_, _, _)
CI_Concat(piece, i, j) == IF i > j THEN << >> ELSE piece[i] \o CI_Concat(piece, i + 1, j)

\* the documented coupling names of a chamber that is not a 3D_fluid one
C15_Names ==
  [ i \in ChIdx |->
      IF CI_type(i) \in {"prescribed", "3D_solid"} /\ ci.cf.cq[i] = "volume" THEN << "V_" \o chn(i) >>
      ELSE IF CI_type(i) \in {"prescribed", "3D_solid"} /\ ci.cf.cq[i] = "flux" THEN << "Q_" \o chn(i) >>
      ELSE IF CI_type(i) = "3D_solid" /\ ci.cf.cq[i] = "pressure" THEN << "p_" \o chn(i) >>
      ELSE << >> ]

\* C15: for every chamber set_compartment_interfaces selects the
\* documented assignment: elastance chambers volume switch 1 and no
\* coupling name, rigid ones switch 0 and no name; 3D_solid or prescribed
\* with volume the name V_<chamber> and switch 1, with flux Q_<chamber> and
\* switch 0, the pressure staying the unknown; 3D_solid with pressure the
\* name p_<chamber>, the unknown V_ or Q_<chamber> by the variable quantity
\* and si = 1; 3D_fluid the unknown Q_<chamber> and si = 1 except for the
\* aortic root
C15_DocumentedAssignment ==
  CI_InterfacesSet =>
    /\ \A i \in ChIdx :
         LET o == ci.o
             cq == ci.cf.cq[i]
             vq == ci.cf.vq[i]
         IN  /\ CI_type(i) \in {"0D_elast", "0D_elast_prescr"} => o.switch_V[i] = 1
             /\ CI_type(i) = "0D_rigid" => o.switch_V[i] = 0
             /\ CI_type(i) \in {"prescribed", "3D_solid"} /\ cq \in {"volume", "flux"} =>
                  /\ o.switch_V[i] = (IF cq = "volume" THEN 1 ELSE 0)
                  /\ o.vname[i] = "p_" \o chn(i) /\ o.si[i] = 0
             /\ CI_type(i) = "3D_solid" /\ cq = "pressure" =>
                  /\ o.vname[i] = (IF vq = "volume" THEN "V_" ELSE "Q_") \o chn(i)
                  /\ vq \in {"volume", "flux"}
                  /\ o.si[i] = 1
             /\ CI_type(i) = "3D_fluid" =>
                  /\ o.vname[i] = "Q_" \o chn(i)
                  /\ o.si[i] = (IF Chambers[i + 1] = "ao" THEN 0 ELSE 1)
    /\ CI_NoFluid => ci.o.cname = CI_Concat(C15_Names, 0, NumChambers - 1)

\* a pressure-coupled 3D solid among volume-coupled ones has been resolved
C15_Witness ==
  /\ ci.stage = "interfaces"
  /\ \E i, j \in ChIdx :
       /\ CI_type(i) = "3D_solid" /\ ci.cf.cq[i] = "pressure" /\ ci.o.si[i] = 1
       /\ i < j /\ CI_type(j) = "3D_solid" /\ ci.cf.cq[j] = "volume"
       /\ Len(ci.o.cname) = NumChambers

\* C16: for a prescribed chamber with coupling quantity pressure the
\* construction succeeds and behaves as for 3D_solid with pressure: the
\* volume or flux becomes the unknown and the name p_<chamber> and one
\* coupling symbol, the pressure, are added
C16_PrescribedPressure ==
  \A i \in ChIdx :
    ( /\ CI_InterfacesCalled
      /\ CI_type(i) = "prescribed" /\ ci.cf.cq[i] = "pressure"
      /\ ci.cf.vq[i] \in {"volume", "flux"} /\ ci.cf.valvelaw \in ValveLaws ) =>
      /\ ci.o.error = None
      /\ ci.o.si[i] = 1
      /\ ci.o.vname[i] = (IF ci.cf.vq[i] = "volume" THEN "V_" ELSE "Q_") \o chn(i)
      /\ \E k \in DOMAIN ci.o.cname : ci.o.cname[k] = "p_" \o chn(i)
      /\ ci.stage = "equations" =>
           /\ ci.o.x_[vindex_ch(i) - 1] = ChVars(i).VQ
           /\ \E k \in DOMAIN ci.o.c_ : ci.o.c_[k] = ChVars(i).pi[1]

\* set_coupling_state alone takes the pressure of a prescribed chamber as
\* the coupling symbol
CI_PrescribedPressureState ==
  ( ci.stage = "direct" /\ CI_type(ci.ch) = "prescribed" /\ ci.cf.cq[ci.ch] = "pressure" ) =>
    /\ ci.o.error = None
    /\ ci.o.c_ = << ChVars(ci.ch).pi[1] >>
    /\ ci.o.x_[vindex_ch(ci.ch)] = ChVars(ci.ch).VQ

\* the first chamber whose tokens set_compartment_interfaces does not know
C17_Unknown(i) ==
  \/ CI_type(i) \notin ChamberTypes
  \/ CI_type(i) \in {"prescribed", "3D_solid"} /\ ci.cf.cq[i] \notin Quantities
  \/ CI_type(i) = "3D_solid" /\ ci.cf.cq[i] = "pressure" /\ ci.cf.vq[i] \notin {"volume", "flux"}
C17_Solids(i) == Cardinality({ j \in ChIdx : j < i /\ CI_type(j) = "3D_solid" })

\* C17: each unrecognized token raises an error where it is used and is
\* never skipped or replaced by a default: an unknown model type, an
\* unknown chamber variant (in set_compartment_interfaces and in
\* set_coupling_state), an unknown coupling quantity of a prescribed or
\* 3D_solid chamber, a variable quantity other than volume or flux of a
\* pressure-coupled 3D_solid chamber, an unknown valve law
C17_UnknownTokensRaise ==
  /\ ( ci.stage # "config" /\ ci.cf.modeltype \notin WindkesselTypes \cup HeartTypes ) =>
       ci.stage = "failed" /\ ci.raised_in = "Flow0DProblem" /\ ci.o.error = "NameError"
  /\ \A i \in ChIdx :
       ( CI_InterfacesCalled /\ C17_Unknown(i) ) =>
         /\ ci.stage = "failed" /\ ci.raised_in = "set_compartment_interfaces"
         /\ ci.o.error = ( IF CI_type(i) = "3D_solid" /\ ci.cf.cq[i] = "pressure"
                           THEN "ValueError" ELSE "NameError" )
         /\ Len(ci.o.cname) = C17_Solids(i)
         /\ ci.o.si[i] = 0 /\ ci.o.vname[i] = "p_" \o chn(i)
  /\ ( ci.stage = "direct" /\ CI_type(ci.ch) \notin ChamberTypes ) =>
       ci.o.error = "NameError" /\ ci.o.c_ = << >> /\ ci.chvars[ci.ch] = ChVars(ci.ch)
  /\ ( ci.cf.valvelaw \notin ValveLaws /\ CI_InterfacesSet /\ ci.stage # "interfaces" ) =>
       /\ ci.stage = "failed" /\ ci.o.error # None
       /\ ci.raised_in = "set_coupling_state" \/ (ci.raised_in = "valvelaw" /\ ci.o.error = "NameError")

\* the construction has stopped at an unknown valve law
C17_Witness ==
  /\ ci.stage = "failed" /\ ci.raised_in = "valvelaw" /\ ci.cf.valvelaw \notin ValveLaws
  /\ \E i \in ChIdx : CI_type(i) = "3D_fluid"

\* the coupling names and symbols of the chambers before and after a
\* 3D_fluid chamber (volume-coupled 3D solids, or chambers without any)
C18_OtherNames == [ i \in ChIdx |-> IF CI_type(i) = "3D_fluid" THEN << >> ELSE C15_Names[i] ]
C18_OtherSymbols ==
  [ i \in ChIdx |-> IF CI_type(i) = "3D_solid" THEN << ChVars(i).VQ >> ELSE << >> ]
C18_Extra(i, m) == m = 0 /\ Chambers[i + 1] = "ao" /\ ci.cf.cormodel # None

\* C18: a 3D_fluid chamber with m inflows and n outflows generates exactly
\* m + n coupling scalars, inflows first (p_<chamber>_i1 .. _im) then
\* outflows (p_<chamber>_o1 .. _on); with zero inflows the inflow pressure
\* is replaced by zero, with zero outflows the outflow pressure; exactly
\* one extra scalar p_v_l_o1 is appended after the others only when the
\* chamber is the aortic root, has zero inflows and a coronary model is
\* configured
C18_FluidCouplingScalars ==
  \A i \in ChIdx :
    CI_type(i) = "3D_fluid" =>
      LET m == ci.cf.chmodels[i].num_inflows
          n == ci.cf.chmodels[i].num_outflows
          names == [ k \in 1 .. m + n |->
                       IF k <= m THEN "p_" \o chn(i) \o "_i" \o ToString(k)
                       ELSE "p_" \o chn(i) \o "_o" \o ToString(k - m) ]
          symbols == [ k \in 1 .. m + n |-> names[k] \o "_" ]
      IN  /\ CI_InterfacesSet =>
               /\ ci.o.cname = CI_Concat(C18_OtherNames, 0, i - 1) \o names
                                 \o (IF C18_Extra(i, m) THEN << "p_v_l_o1" >> ELSE << >>)
                                 \o CI_Concat(C18_OtherNames, i + 1, NumChambers - 1)
               /\ Len(ci.o.cname) - Len(CI_Concat(C18_OtherNames, 0, NumChambers - 1))
                    = m + n + (IF C18_Extra(i, m) THEN 1 ELSE 0)
          /\ CI_StatesSet =>
               /\ ci.o.c_ = CI_Concat(C18_OtherSymbols, 0, i - 1) \o symbols
                              \o (IF C18_Extra(i, m) THEN << "p_v_l_o1_" >> ELSE << >>)
                              \o CI_Concat(C18_OtherSymbols, i + 1, NumChambers - 1)
               /\ (ci.chvars[i].pi[1] = Zero) = (m = 0)
               /\ (ci.chvars[i].po[1] = Zero) = (n = 0)

\* an aortic root without inflow, with outflows and a coronary model, among
\* 3D solids
C18_Witness ==
  /\ ci.stage = "equations" /\ CI_type(4) = "3D_fluid" /\ CI_type(0) = "3D_solid"
  /\ ci.cf.chmodels[4].num_inflows = 0 /\ ci.cf.chmodels[4].num_outflows = MaxFlows
  /\ ci.cf.cormodel # None
  /\ ci.o.cname[Len(ci.o.cname)] = "p_v_l_o1"

\* a ventricle with inflows and outflows, among 3D solids
CI_FluidVentricle ==
  /\ ci.stage = "equations" /\ CI_type(0) = "3D_fluid" /\ CI_type(1) = "3D_solid"
  /\ ci.cf.chmodels[0].num_inflows = MaxFlows /\ ci.cf.chmodels[0].num_outflows = 1

(***************************************************************************)
(* Properties of the cycle controller (specification Spec).                *)
(***************************************************************************)
\* the number of the last step whose cycle_check call has been made
C21_Checked ==
  IF pc \in {"evaluate_initial", "solve", "post_c", "done"} THEN N ELSE N - 1

\* C21: with a step size that divides T_cycl and the time handed to
\* cycle_check taken relative to the current cycle, the absolute times
\* k * T_cycl (k >= 1) and no others are treated as cycle boundaries, and
\* the cycle counter is 1 plus the number of boundaries passed.
C21_BoundariesAtMultiples ==
  /\ [][ CycleCheckStep =>
           /\ t = N * dt - (cycle - 1) * cfg.T_cycl
           /\ IF cfg.T_cycl > 0 /\ (N * dt) % cfg.T_cycl = 0
              THEN cycle' = cycle + 1 /\ sTc' = s
              ELSE cycle' = cycle /\ sTc' = sTc ]_vars
  /\ [](cycle = 1 + (IF cfg.T_cycl > 0 THEN (C21_Checked * dt) \div cfg.T_cycl ELSE 0))

\* the second cycle boundary has been passed without a periodic report
C21_Witness ==
  /\ cfg.T_cycl > 0
  /\ N * dt = 2 * cfg.T_cycl
  /\ cycle = 3
  /\ ~ret
  /\ pc = "done"

(***************************************************************************)
(* Properties of the Jacobian (specification SpecJK).                      *)
(***************************************************************************)
\* x with the entry of unknown j moved by d
C22_Moved(x, j, d) == [k \in Idx |-> IF k = j THEN x[k] + d ELSE x[k]]

\* no unknown occurs with a power above two in a residual expression, so the
\* derivative with respect to x[j] is the central difference quotient
\* (e(x + 1) - e(x - 1)) / 2 at every point
C22_AtMostQuadratic ==
  \A i \in Idx, j \in Idx :
    /\ \A k \in DOMAIN sym.f_[i] : sym.f_[i][k].x[j] <= 2
    /\ \A k \in DOMAIN sym.df_[i] : sym.df_[i][k].x[j] <= 2

\* C22: for every compiled model and every pair of indices the Jacobian
\* evaluators agree with the residual evaluators: K[i][j] is the derivative of
\* f[i] and dK[i][j] that of df[i] with respect to x[j], for every state
\* vector, coupling input, function value and time, before and after a
\* perturbation has regenerated the expressions; the arrays an evaluate call
\* fills hold these derivatives at the arguments of the call.  The
\* evaluators are examined at every argument when they have been compiled
\* and not yet called, and at the arguments of the call afterwards.
C22_JacobianAgrees ==
  ~IsNone(jk) =>
    /\ C22_AtMostQuadratic
    /\ IsNone(jk.out) =>
         \A i \in Idx, j \in Idx, x \in Vecs, tt \in 0 .. StepsPerCycle :
         \A c \in ListInputs(jk.coupled), fnc \in ListInputs(jk.coupled) :
           /\ 2 * K__(i, j, x, c, tt, fnc)
                = f__(i, C22_Moved(x, j, 1), c, tt, fnc) - f__(i, C22_Moved(x, j, -1), c, tt, fnc)
           /\ 2 * dK__(i, j, x, c, tt, fnc)
                = df__(i, C22_Moved(x, j, 1), c, tt, fnc)
                    - df__(i, C22_Moved(x, j, -1), c, tt, fnc)
    /\ ~IsNone(jk.out) =>
         \A i \in Idx, j \in Idx :
           /\ 2 * jk.out.K[i][j]
                = f__(i, C22_Moved(jk.x, j, 1), jk.c, jk.t, jk.fnc)
                    - f__(i, C22_Moved(jk.x, j, -1), jk.c, jk.t, jk.fnc)
           /\ 2 * jk.out.dK[i][j]
                = df__(i, C22_Moved(jk.x, j, 1), jk.c, jk.t, jk.fnc)
                    - df__(i, C22_Moved(jk.x, j, -1), jk.c, jk.t, jk.fnc)

\* a perturbed model with a coupled chamber has been evaluated at a point
\* where its Jacobian depends on the state, the coupling input, the function
\* value and the time, and is not symmetric
C22_Witness ==
  /\ ~IsNone(jk) /\ jk.coupled /\ ~IsNone(jk.out)
  /\ npert >= 1 /\ Rv # Rbase
  /\ jk.x = [k \in Idx |-> 1] /\ jk.c = << 1 >> /\ jk.fnc = << 1 >> /\ jk.t = 1
  /\ jk.out.K[0][0] = Rv.R_vin_l_max + 1
  /\ jk.out.K[1][0] = 1 - Rv.R_vout_l_min
  /\ jk.out.K[1][1] = 2 * Rv.R_vout_l_max
  /\ jk.out.dK[0][1] = 1 /\ jk.out.dK[1][0] = 0 /\ jk.out.dK[1][1] = 1
  /\ jk.out.K[0][1] # jk.out.K[1][0]


(***************************************************************************)
(* Properties of the time-controlled valve law (specification SpecVL).     *)
(***************************************************************************)
\* the valve is open at vl.t: within [topen, tclose), a window that wraps
\* around the end of the cycle when tclose < topen
C23_Open ==
  IF vl.topen <= vl.tclose
  THEN vl.topen <= vl.t /\ vl.t < vl.tclose
  ELSE vl.t >= vl.topen \/ vl.t < vl.tclose

\* C23: for every t, topen and tclose exactly one resistance branch of the
\* pwlin_time law applies; the resistance is Rmin exactly when t lies in the
\* open window and Rmax otherwise, and the flow is (popen - p) / R.
C23_OpenWindow ==
  ~ IsNone(vl) /\ ~ IsNone(vl.out) =>
    /\ Cardinality(vl.out.applies) = 1
    /\ vl.out.R = (IF C23_Open THEN vl.Rmin ELSE vl.Rmax)
    /\ vl.out.R # vl.Rmin => ~ C23_Open /\ vl.out.R = vl.Rmax
    /\ vl.out.vl * vl.out.R = vl.popen - vl.p

\* a valve whose window wraps around, evaluated before it closes
C23_Witness ==
  /\ ~ IsNone(vl) /\ ~ IsNone(vl.out)
  /\ vl.tclose < vl.topen /\ vl.t < vl.tclose
  /\ vl.out.R = vl.Rmin
  /\ vl.out.vl > 0


(***************************************************************************)
(* Properties of the coupled problem's abort (specification Spec).  The    *)
(* 0D sub-problem of the coupled problem takes the steps of Spec; ret is   *)
(* what its cycle check reports, the value the sub-problems are to hand    *)
(* on; the ALE problem never asks to stop.                                 *)
(***************************************************************************)
\* C24: the coupled problem's check_abort reports abort at exactly the steps
\* at which the 0D problem's cycle check reports periodic, and the 0D
\* problem's own check_abort call comes back.
C24_CoupledAbort ==
  /\ [][ CycleCheckStep =>
          ( FluidmechanicsAleFlow0D_check_abort(ret', FALSE) <=> ret' ) ]_vars
  /\ [][ ~ CheckAbortStep ]_vars


(***************************************************************************)
(* Further properties of the cycle controller (specification Spec).        *)
(***************************************************************************)
\* the time handed to cycle_check is the cycle time of a model that has one
C25_Boundary == cfg.T_cycl > 0 /\ IsClose(t, cfg.T_cycl)

\* C25: a cycle_check call away from a cycle boundary (T_cycl <= 0, or t not
\* T_cycl within tolerance) returns False and leaves varTc, varTc_old and the
\* cycle counter as they were; a call at a boundary raises the counter by
\* exactly one; no step lowers the counter; the snapshots change at
\* boundaries only.
C25_FrameOffBoundary ==
  /\ [][ CycleCheckStep /\ ~ C25_Boundary =>
           ~ ret' /\ UNCHANGED << sTc, sTc_old, cycle >> ]_vars
  /\ [][ CycleCheckStep /\ C25_Boundary => cycle' = cycle + 1 ]_vars
  /\ [][ cycle' >= cycle ]_vars
  /\ [][ sTc' # sTc \/ sTc_old' # sTc_old => CycleCheckStep /\ C25_Boundary ]_vars

\* the step after a cycle boundary has been checked: the counter stands at
\* two and the snapshot is not the state of this step
C25_Witness ==
  /\ cfg.T_cycl > 0
  /\ N * dt = cfg.T_cycl + dt
  /\ pc = "solve"
  /\ cycle = 2
  /\ sTc # s /\ sTc # ZeroVec /\ sTc_old = sTc


C27_Coupled3D(i) == CI_type(i) \in {"3D_solid", "3D_fluid"}
\* the chamber is a 3D solid coupled by the given quantities
C27_Solid(i, quantities) == CI_type(i) = "3D_solid" /\ ci.cf.cq[i] \in quantities

\* C27: after set_compartment_interfaces, for every combination it accepts,
\* v_ids and c_ids have the same length and hold one entry each per chamber
\* coupled to a 3D subdomain, in the order of the chambers.
C27_PairPerChamber ==
  CI_InterfacesSet =>
    /\ Len(ci.o.v_ids) = Len(ci.o.c_ids)
    /\ Len(ci.o.v_ids) = Cardinality({ i \in ChIdx : C27_Coupled3D(i) })

\* C27 (amended): a 3D solid coupled by volume or flux adds the pair
\* (vindex_ch, cindex_ch) of its chamber to v_ids and c_ids; a 3D solid
\* coupled by pressure adds vindex_ch - 1 to v_ids and nothing to c_ids;
\* 3D_fluid, prescribed and 0D chambers add nothing to either list.  The
\* entries stand in the order of the chambers.  v_ids is longer than c_ids
\* by the number of 3D solids coupled by pressure, so the lists have the
\* same length exactly when there is none, and then the k-th entries of
\* both belong to the same chamber.
C27_CouplingMap ==
  CI_InterfacesSet =>
    /\ ci.o.v_ids =
         CI_Concat([ i \in ChIdx |->
                       IF C27_Solid(i, {"volume", "flux"}) THEN << vindex_ch(i) >>
                       ELSE IF C27_Solid(i, {"pressure"}) THEN << vindex_ch(i) - 1 >>
                       ELSE << >> ], 0, NumChambers - 1)
    /\ ci.o.c_ids =
         CI_Concat([ i \in ChIdx |->
                       IF C27_Solid(i, {"volume", "flux"}) THEN << cindex_ch(i) >>
                       ELSE << >> ], 0, NumChambers - 1)
    /\ Len(ci.o.v_ids) =
         Len(ci.o.c_ids) + Cardinality({ i \in ChIdx : C27_Solid(i, {"pressure"}) })
    /\ Len(ci.o.v_ids) = Len(ci.o.c_ids) <=> ~(\E i \in ChIdx : C27_Solid(i, {"pressure"}))
    /\ ~(\E i \in ChIdx : C27_Solid(i, {"pressure"})) =>
         \A k \in DOMAIN ci.o.v_ids :
           \E i \in ChIdx : ci.o.v_ids[k] = vindex_ch(i) /\ ci.o.c_ids[k] = cindex_ch(i)

\* five 3D solids, one of them coupled by flux among four coupled by volume
C27_Witness ==
  /\ ci.stage = "interfaces"
  /\ \A i \in ChIdx : CI_type(i) = "3D_solid"
  /\ \E i \in ChIdx : ci.cf.cq[i] = "flux"
  /\ Len(ci.o.v_ids) = NumChambers /\ Len(ci.o.c_ids) = NumChambers


\* the coupling name stands for the coupling symbol: the volume or flux of
\* a chamber for its symbol VQ, the pressure of a chamber for its symbol
\* pi1, the pressure at a boundary of a 3D_fluid chamber for that
\* boundary's symbol (p_v_l_o1 for the left ventricle's first outflow)
C28_Denotes(name, symbol) ==
  \E i \in ChIdx :
    \/ name \in {"V_" \o chn(i), "Q_" \o chn(i)} /\ symbol = ChVars(i).VQ
    \/ name = "p_" \o chn(i) /\ symbol = ChVars(i).pi[1]
    \/ \E k \in 1 .. MaxFlows :
         \/ name = "p_" \o chn(i) \o "_i" \o ToString(k) /\ symbol = ChVars(i).pi[k]
         \/ name = "p_" \o chn(i) \o "_o" \o ToString(k) /\ symbol = ChVars(i).po[k]

\* C28: once set_compartment_interfaces and the set_coupling_state calls of
\* the equation map have run, cname and c_ have the same length and the
\* k-th coupling name denotes the k-th coupling symbol.
C28_NamesMatchSymbols ==
  ci.stage = "equations" =>
    /\ Len(ci.o.cname) = Len(ci.o.c_)
    /\ \A k \in DOMAIN ci.o.cname : C28_Denotes(ci.o.cname[k], ci.o.c_[k])

\* a heart of four 3D solids and one chamber that is coupled by pressure,
\* a solid or a fluid with at least one boundary
C28_Witness ==
  /\ ci.stage = "equations"
  /\ \E i \in ChIdx : ci.cf.cq[i] = "pressure"
  /\ Len(ci.o.c_) >= NumChambers
  /\ \E k \in DOMAIN ci.o.c_ : \E i \in ChIdx : ci.o.c_[k] = ChVars(i).pi[1]


(***************************************************************************)
(* Properties of the distributed vector (specification SpecRK).            *)
(***************************************************************************)
\* the indices rank q owns
C29_Own(q) == { i \in Idx : rk.own[q] <= i /\ i < rk.own[q + 1] }
C29_Ranks == 0 .. rk.n - 1

\* C29: the ownership ranges tile 0..numdof-1; in every interleaving of the
\* ranks' calls a rank changes var_old, df_old, f_old and the snapshots at
\* indices of its own range only; a rank that has made its update call has
\* brought its range up to date, so that var_old = var, df_old = df and
\* f_old = f everywhere once every rank has; the same holds for the snapshot
\* copies of cycle_check.
C29_OwnRangeOnly ==
  /\ [][ \A q \in C29_Ranks :
           rk'.at[q] # rk.at[q] =>
             \A i \in Idx \ C29_Own(q) :
               /\ rk'.var_old[i] = rk.var_old[i]
               /\ rk'.df_old[i] = rk.df_old[i]
               /\ rk'.f_old[i] = rk.f_old[i]
               /\ rk'.varTc[i] = rk.varTc[i]
               /\ rk'.varTc_old[i] = rk.varTc_old[i] ]_vars
  /\ [] ( /\ \A i \in Idx : Cardinality({ q \in C29_Ranks : i \in C29_Own(q) }) = 1
          /\ \A q \in C29_Ranks :
               /\ rk.at[q] # "update" =>
                    \A i \in C29_Own(q) :
                      rk.var_old[i] = rk.var[i] /\ rk.df_old[i] = rk.df[i] /\ rk.f_old[i] = rk.f[i]
               /\ rk.at[q] = "done" =>
                    \A i \in C29_Own(q) :
                      rk.varTc[i] = rk.var[i] /\ rk.varTc_old[i] = rk.var[i]
          /\ (\A q \in C29_Ranks : rk.at[q] # "update") =>
               rk.var_old = rk.var /\ rk.df_old = rk.df /\ rk.f_old = rk.f
          /\ (\A q \in C29_Ranks : rk.at[q] = "done") =>
               rk.varTc = rk.var /\ rk.varTc_old = rk.var )

\* two ranks owning one index each: the second has updated and taken its
\* snapshot, the first has not yet made its update call
C29_Witness ==
  /\ ~ IsNone(rk)
  /\ rk.n = 2 /\ rk.own[1] = 1
  /\ rk.at[0] = "update" /\ rk.at[1] = "done"
  /\ rk.var_old[0] = -1 /\ rk.var_old[1] = rk.var[1]
  /\ rk.varTc_old[1] = rk.var[1] /\ rk.varTc[0] = -1
  /\ rk.df[1] # rk.f[1]


(***************************************************************************)
(* Properties of the initial-data files (specification Spec).              *)
(***************************************************************************)
\* what a cycle_check call on the present state would give, were it handed
\* the output path `path`
C30_Call(path) ==
  cardvasc0D_cycle_check(s, sTc, sTc_old, t, cycle, cycleerror, cfg.eps_periodic,
                         cfg.periodic_checktype, path, cfg.perturb_after_cylce,
                         initial_data, 0, numdof)

\* C30: write_initial is called only at a cycle boundary at which cycle_check
\* reports periodic and an output path is given, and before varTc_old is
\* overwritten: Tstart is the snapshot of the previous boundary, Tend that
\* of the current one.  At a boundary that is not periodic, away from a
\* boundary and without a path nothing is written.
C30_InitialData ==
  /\ [][ CycleCheckStep =>
           IF ret'
           THEN /\ C25_Boundary
                /\ initial_data' = [ Tstart |-> sTc_old, Tend |-> s ]
                /\ sTc_old' = s
           ELSE initial_data' = initial_data ]_vars
  /\ [][ initial_data' # initial_data => CycleCheckStep /\ ret' /\ cfg.output_path_0D # None ]_vars
  /\ [] ( pc \in {"post", "post_i"} =>
            /\ C30_Call(None).initial_data = initial_data
            /\ C30_Call("out").initial_data # initial_data =>
                 C30_Call("out").is_periodic /\ C25_Boundary )

\* the run ended periodic at its first boundary; the start-of-cycle file
\* holds the initial conditions, which differ from the state at the boundary
C30_Witness ==
  /\ ret /\ pc = "done"
  /\ N * dt = cfg.T_cycl
  /\ ~ IsNone(initial_data)
  /\ initial_data.Tstart = cfg.initialconditions
  /\ initial_data.Tend = s /\ sTc_old = s
  /\ initial_data.Tstart # s

=============================================================================
